---- MODULE Spec2Model ----
(***************************************************************************)
(* A model of the benchmarking harness of openhands-elide-fork:            *)
(*   - the CLI load generator (packages/bench/src/cli.ts and the copy in   *)
(*     wrk2.ts): run(), percentile(), sweep();                             *)
(*   - the synthetic streaming target of the Elide server                  *)
(*     (apps/server-elide/src/index.ts, handleChatProxy);                  *)
(*   - the multi-target orchestrator (main() and its processes);           *)
(*   - the run-cli endpoints of the Elide server with their event stream   *)
(*     and sampler, the sampler of sweep() in wrk2.ts;                     *)
(*   - the comparative analysis of the index generator and its             *)
(*     PerformanceAnalyzer (scaling patterns, bottlenecks);                *)
(*   - the metric accounting of handleChatProxy;                           *)
(*   - the sweep of the page (apps/ui/src/App.tsx, benchSummary).          *)
(* Each component has its own specification over the shared variables;     *)
(* a specification leaves the variables of the other components alone.     *)
(***************************************************************************)
EXTENDS Integers, Sequences, FiniteSets, TLC

(***************************************************************************)
(* Bounds of the model.                                                    *)
(***************************************************************************)
MaxConc == 3
MaxTotal == 3
MaxLen == 4
MaxVal == 4
MaxFrames == 2
MaxChunk == 3
MaxClock == 3
MaxSynFrames == 2
MaxFanout == 1
MaxTargets == 2
MaxTiers == 2
MaxSubs == 2
MaxEvents == 1
MaxCpu == 1
MaxRss == 1
MaxRetained == 3
SampleCap == 2
MaxMetric == 20
MaxScenarios == 2
MaxConcLevel == 4
MaxRps == 3
MaxReqs == 2

\* JavaScript's NaN, kept apart from every measured (non-negative) number.
NaN == -1

VARIABLES
    \* ---- sweep() of cli.ts / wrk2.ts
    concurrency,    \* parameter: number of workers
    total,          \* parameter: number of requests of the tier
    next,           \* the shared counter `next`
    results,        \* results[idx], a sample or a hole of `new Array(total)`
    wpc,            \* per worker: "await" (inside await run()) or "done"
    widx,           \* per worker: its local `idx`
    inflight,       \* the requests whose run() promise is pending
    issued,         \* history: per index, the workers that called run() for it
    rejected,       \* history: the indices whose fetch rejected
    sweepPc,        \* "init", "running", "returned" or "thrown"
    ttfts,          \* the local `ttfts` handed to percentile()
    durs,           \* the local `durs` handed to percentile()
    stats,          \* the object sweep() returns
    \* ---- percentile() on its own
    pVals, pP, pOut, pPc,
    \* ---- run() of cli.ts / wrk2.ts and the response it reads
    now,            \* performance.now()
    hasBody,        \* whether res.body is set
    wire,           \* response bytes written and not yet handed to read()
    srvEnded,       \* the response stream has been ended by its writer
    runPc,          \* "idle", "start", "fetch", "read", "done" or "threw"
    sendAt,         \* the local `sendAt`
    ttft,           \* the local `ttft`
    ttftSeen,       \* the local `ttftSeen`
    tokens,         \* the local `tokens`
    buffer,         \* the local `buffer`
    duration,       \* the local `duration`
    tps,            \* the local `tps`
    sent,           \* history: the frames the upstream sent, as line kinds
    lastTerminated, \* history: whether the last frame ended with a blank line
    gotChunk,       \* history: read() has returned a chunk
    firstChunkAt,   \* history: the time the first chunk was returned
    headersSent,    \* the response head has reached the client
    \* ---- the synthetic mode of handleChatProxy (server-elide index.ts)
    frames,         \* body.frames
    delayMs,        \* body.delay_ms
    bytesPerFrame,  \* body.bytes_per_frame
    cpuSpinMs,      \* body.cpu_spin_ms
    fanout,         \* body.fanout
    fanoutDelay,    \* body.fanout_delay_ms
    fanoutMode,     \* body.fanout_mode: "inproc" or "http"
    useGzip,        \* body.gzip
    srvPc,          \* position of the handler
    srvI,           \* the loop variable `i`
    gzbuf,          \* bytes written to the gzip stream and not yet piped on
    srvOut,         \* history: every byte given to writer.write
    srvLog,         \* history: the steps of the handler, in order
    \* ---- main() of the multi-target orchestrator and its processes
    targets,        \* parseTargets(): the selected targets
    startAll,       \* QUAD_START_SERVERS
    sequential,     \* QUAD_MODE = sequential
    tiers,          \* parseTiers().length
    platform,       \* process.platform: "win32" or "posix"
    orchPc,         \* position of main()
    orchAt,         \* index of the target the current phase has come to
    tierIdx,        \* index of the tier handed to runForTier
    build,          \* per target, its build process
    proc,           \* per target, the process startServer() returned
    desc,           \* per target, the processes its server process spawned
    killedTree,     \* history: per target, killTree(pid) has completed
    probeSt,        \* per target, position of probe() / waitHealthy()
    waited,         \* per target, Date.now() - t0 as a running waitHealthy saw it
    healthy,        \* the record `healthy`
    sweepSt,        \* per target, the runSweep() promise of the current tier
    written,        \* per (target, tier), the kinds of artifact written
    orchErr,        \* an exception is propagating out of the try block
    cancelled,      \* history: the cancel endpoint has handled a request
    \* ---- the run-cli endpoints of the server (server-elide index.ts)
    hostPlatform,   \* process.platform of the server: "win32" or "posix"
    child,          \* the spawned process `p` and its pending close event
    cliRuns,        \* CLI_RUNS.get(pid): "absent" or the status of the entry
    cliSubs,        \* CLI_SUBS.get(pid): the responses subscribed to the run
    samplerOn,      \* CLI_SAMPLERS has the pid: its interval timer is registered
    samplerLast,    \* sampler.last.cpuSeconds, the baseline of the next tick
    conn,           \* per subscriber, the state of its response
    delivered,      \* history: per subscriber, the events written to it
    joinedAt,       \* history: per subscriber, the run's status when it attached
    atCancel,       \* history: per subscriber, it was subscribed at a cancel
    cancelledRunning, \* history: a cancel request found the run running
    \* ---- the sampler of sweep() (wrk2.ts) and the sample listener (App.tsx)
    smpPc,          \* position of sweep() around its sampler
    timer,          \* the interval `timer` is registered
    lastSample,     \* the local `lastSample`
    cpuPercents,    \* the array `cpuPercents`
    rssMBs,         \* the array `rssMBs`
    cliSamples,     \* the state `cliSamples` of the page
    \* ---- the comparative analysis of the index generator (part_010)
    anPc,           \* position of the analysis of one pair of rows
    anMetric,       \* the metric compared
    elideRow,       \* baseline[metric], the value of the row of elide
    otherRow,       \* other[metric], the value of the other row
    insight,        \* what getPerformanceInsight returned
    cmpClass,       \* what getComparisonClass returned for the other row
    \* ---- the PerformanceAnalyzer of the index generator (part_010)
    rpPc,           \* how often the analysis has been run on `scenarios`
    scenarios,      \* the Map `scenarios`, in insertion order
    findings,       \* the arrays and the Map the last run built and returned
    firstFindings,  \* history: what the first run returned
    \* ---- handleChatProxy of the server (server-elide index.ts)
    chatPc,         \* per request, the await its handler stands at
    chatInFlight,   \* the gauge chat_in_flight, summed over its labels
    statusLabel,    \* per request, the local `statusLabel`
    chatRequests,   \* history: per request, its chat_requests_total labels
    chatDurObs,     \* history: per request, its chat_duration_ms observations
    \* ---- benchSummary(c, t) / runBench of the page (App.tsx)
    uiPc,           \* position of spawn()
    uiC,            \* parameter c
    uiT,            \* parameter t
    uiInflight,     \* the local `inflight`
    uiDone,         \* the local `done`
    uiLaunched,     \* history: the calls of runOnce()
    uiDurs          \* durs.length

sweepVars == <<concurrency, total, next, results, wpc, widx, inflight, issued,
               rejected, sweepPc, ttfts, durs, stats>>
pctVars == <<pVals, pP, pOut, pPc>>
runVars == <<now, hasBody, wire, srvEnded, runPc, sendAt, ttft, ttftSeen,
             tokens, buffer, duration, tps, sent, lastTerminated, gotChunk,
             firstChunkAt, headersSent>>
synVars == <<frames, delayMs, bytesPerFrame, cpuSpinMs, fanout, fanoutDelay,
             fanoutMode, useGzip, srvPc, srvI, gzbuf, srvOut, srvLog>>
orchVars == <<targets, startAll, sequential, tiers, platform, orchPc, orchAt,
              tierIdx, build, proc, desc, killedTree, probeSt, waited,
              healthy, sweepSt, written, orchErr, cancelled>>
\* The load generator with the synthetic target, and the processes around it.
benchVars == <<sweepVars, pctVars, runVars, synVars>>
liveVars == <<hostPlatform, child, cliRuns, cliSubs, samplerOn, samplerLast,
              conn, delivered, joinedAt, atCancel, cancelledRunning>>
smpVars == <<smpPc, timer, lastSample, cpuPercents, rssMBs, cliSamples>>
anVars == <<anPc, anMetric, elideRow, otherRow, insight, cmpClass>>
repVars == <<rpPc, scenarios, findings, firstFindings>>
chatVars == <<chatPc, chatInFlight, statusLabel, chatRequests, chatDurObs>>
uiVars == <<uiPc, uiC, uiT, uiInflight, uiDone, uiLaunched, uiDurs>>
\* The analyzer of the reports, the chat handler and the page's sweep.
pageVars == <<repVars, chatVars, uiVars>>
\* The run-cli endpoints, the samplers and the analysis.
statusVars == <<liveVars, smpVars, anVars, pageVars>>
hostVars == <<orchVars, statusVars>>
vars == <<benchVars, hostVars>>

(***************************************************************************)
(* percentile(vals, p)                                                     *)
(***************************************************************************)
RECURSIVE InsertAsc(_, _)
\* One insertion of the ascending sort of `vals.slice().sort((a,b)=>a-b)`.
InsertAsc(x, s) ==
    IF s = <<>> THEN <<x>>
    ELSE IF x <= Head(s) THEN <<x>> \o s
    ELSE <<Head(s)>> \o InsertAsc(x, Tail(s))

RECURSIVE SortAsc(_)
SortAsc(s) == IF s = <<>> THEN <<>> ELSE InsertAsc(Head(s), SortAsc(Tail(s)))

\* Math.floor((p/100) * (a.length-1)), as a 1-based index.
\* For the integral p the callers pass the product is exact in doubles.
PctIdxRound(p, n) == ((p * (n - 1) + 50) \div 100) + 1
PctIdx(p, n) == ((p * (n - 1)) \div 100) + 1

percentile(vals, p) ==
    IF Len(vals) = 0 THEN NaN
    ELSE SortAsc(vals)[PctIdx(p, Len(vals))]

SeqSet(s) == {s[i] : i \in 1..Len(s)}

\* What percentile() can return in sweep(): with a NaN among the values the
\* comparator (a,b)=>a-b is inconsistent and the sorted order is
\* implementation-defined, so any element may sit at the index.
PercentileOutcomes(vals, p) ==
    IF NaN \in SeqSet(vals) THEN SeqSet(vals) ELSE {percentile(vals, p)}

(***************************************************************************)
(* sweep(baseURL, prompt, concurrency, total)                              *)
(***************************************************************************)
\* The hole of `new Array(total)` before results[idx] is assigned.
Hole == [hole |-> TRUE]

\* What run() can resolve with: {ttft, tokens, duration, tps}; `ok` is the
\* response's res.ok, which run() never reads (history only).
Sample(ok, tt, dur, tk) ==
    [ok |-> ok, ttft |-> tt, duration |-> dur, tokens |-> tk,
     tps |-> (tk * 1000) \div dur]

Samples ==
    { Sample(TRUE, 1, 2, 2),      \* a streamed answer
      Sample(TRUE, 2, 3, 1),      \* a slower streamed answer
      Sample(FALSE, NaN, 1, 0),   \* non-success status, empty body
      Sample(FALSE, 1, 1, 0) }    \* non-success status with an error body

WallTimes == {2, 4}

\* Array.from({ length: concurrency }, () => worker())
WorkerIdsTotal(c, t) == 1..t
WorkerIds(c, t) == 1..c

\* const idx = next++
TakeIdxNoInc(n) == [idx |-> n, next |-> n]
TakeIdx(n) == [idx |-> n, next |-> n + 1]

\* if (idx >= total) break
LoopBreaksOffByOne(idx, t) == idx > t
LoopBreaks(idx, t) == idx >= t

\* One pass of the worker loop up to its await: take an index, then either
\* break or call run() for it.  issued[i] lists the workers that called
\* run() for index i.
WorkerTakes(w, st) ==
    LET t == TakeIdx(st.next) IN
    IF LoopBreaks(t.idx, total)
    THEN [st EXCEPT !.next = t.next,
                    !.wpc = [@ EXCEPT ![w] = "done"],
                    !.widx = [@ EXCEPT ![w] = t.idx]]
    ELSE [st EXCEPT !.next = t.next,
                    !.wpc = [@ EXCEPT ![w] = "await"],
                    !.widx = [@ EXCEPT ![w] = t.idx],
                    !.inflight = @ \cup {t.idx},
                    !.issued = [i \in DOMAIN @ \cup {t.idx} |->
                                  IF i = t.idx
                                  THEN (IF i \in DOMAIN @ THEN @[i] ELSE <<>>)
                                       \o <<w>>
                                  ELSE @[i]]]

\* results[idx] = sample (a JavaScript array grows when idx is past its end).
AssignResult(arr, idx, s) ==
    [i \in DOMAIN arr \cup {idx} |-> IF i = idx THEN s ELSE arr[i]]

RECURSIVE LaunchFrom(_, _, _)
\* The workers are started one after another, each running synchronously up
\* to its first await.
LaunchFrom(w, last, st) ==
    IF w > last THEN st ELSE LaunchFrom(w + 1, last, WorkerTakes(w, st))

SweepState == [next |-> next, wpc |-> wpc, widx |-> widx,
               inflight |-> inflight, issued |-> issued]

SetSweepState(st) ==
    /\ next' = st.next
    /\ wpc' = st.wpc
    /\ widx' = st.widx
    /\ inflight' = st.inflight
    /\ issued' = st.issued

\* sweep() up to `await Promise.all(...)`.
SweepStart ==
    /\ sweepPc = "init"
    /\ sweepPc' = "running"
    /\ SetSweepState(LaunchFrom(1, Cardinality(DOMAIN wpc), SweepState))
    /\ UNCHANGED <<concurrency, total, results, rejected, ttfts, durs, stats>>
    /\ UNCHANGED <<pctVars, runVars, synVars, hostVars>>

\* run() resolves for worker w: results[idx] = the sample, then the next
\* pass of the loop.
RunResolves(w) ==
    /\ sweepPc = "running"
    /\ wpc[w] = "await"
    /\ \E s \in Samples :
         /\ results' = AssignResult(results, widx[w], s)
         /\ SetSweepState(WorkerTakes(w,
                [SweepState EXCEPT !.inflight = @ \ {widx[w]}]))
    /\ UNCHANGED <<concurrency, total, rejected, sweepPc, ttfts, durs, stats>>
    /\ UNCHANGED <<pctVars, runVars, synVars, hostVars>>

\* fetch() rejects inside run(): run() has no try/catch, the worker's promise
\* rejects, Promise.all rejects, sweep() throws and main().catch exits the
\* process; nothing else runs.
RunRejects(w) ==
    /\ sweepPc = "running"
    /\ wpc[w] = "await"
    /\ rejected' = rejected \cup {widx[w]}
    /\ inflight' = inflight \ {widx[w]}
    /\ wpc' = [wpc EXCEPT ![w] = "threw"]
    /\ sweepPc' = "thrown"
    /\ UNCHANGED <<concurrency, total, next, results, widx, issued, ttfts,
                   durs, stats>>
    /\ UNCHANGED <<pctVars, runVars, synVars, hostVars>>

\* await Promise.all(workers) resolves.
PromiseAny(pcs) == \E w \in DOMAIN pcs : pcs[w] = "done"
PromiseAll(pcs) == \A w \in DOMAIN pcs : pcs[w] = "done"

RECURSIVE MapFrom(_, _)
\* results.map(r => r[field]) from index i on: holes stay out of the callback.
MapFrom(field, i) ==
    IF i \notin DOMAIN results THEN <<>>
    ELSE (IF results[i] = Hole THEN <<>> ELSE <<results[i][field]>>)
         \o MapFrom(field, i + 1)

MapResults(field) == MapFrom(field, 0)

RECURSIVE SumSeq(_)
SumSeq(s) == IF s = <<>> THEN 0 ELSE Head(s) + SumSeq(Tail(s))

\* The tail of sweep(): wall time, the percentile inputs, the returned stats.
SweepAggregate ==
    /\ sweepPc = "running"
    /\ PromiseAll(wpc)
    /\ LET ts == MapResults("ttft")
           ds == MapResults("duration")
           tk == SumSeq(MapResults("tokens"))
       IN /\ ttfts' = ts
          /\ durs' = ds
          /\ \E wall \in WallTimes :
             \E t50 \in PercentileOutcomes(ts, 50) :
             \E t95 \in PercentileOutcomes(ts, 95) :
               stats' = [total |-> total, concurrency |-> concurrency,
                         wall |-> wall,
                         rps |-> (total * 1000) \div wall,
                         tps |-> (tk * 1000) \div wall,
                         ttft_p50 |-> t50, ttft_p95 |-> t95,
                         dur_p50 |-> percentile(ds, 50),
                         dur_p95 |-> percentile(ds, 95)]
    /\ sweepPc' = "returned"
    /\ UNCHANGED <<concurrency, total, next, results, wpc, widx, inflight,
                   issued, rejected>>
    /\ UNCHANGED <<pctVars, runVars, synVars, hostVars>>


(***************************************************************************)
(* The response body: a sequence of symbols.  The multi-character tokens   *)
(* the parser only ever compares whole are single symbols.                 *)
(***************************************************************************)
LF == "LF"          \* "\n"
SP == "SP"          \* " "
DATA == "data:"
DONE == "[DONE]"
OPEN == "{content:" \* {"choices":[{"delta":{"content":"
CLOSE == "}"        \* "}}]}
X == "x"            \* a character of a word
EMPTY == "{}"       \* well-formed JSON without choices[0].delta.content
EVT == "event:"     \* the start of a line that is no data: line

RECURSIVE SplitFrom(_, _, _)
\* s.split(sep) for a separator of one or two symbols; cur is the piece
\* scanned so far.
SplitFrom(s, sep, cur) ==
    IF s = <<>> THEN <<cur>>
    ELSE IF Len(s) >= Len(sep) /\ SubSeq(s, 1, Len(sep)) = sep
    THEN <<cur>> \o SplitFrom(SubSeq(s, Len(sep) + 1, Len(s)), sep, <<>>)
    ELSE SplitFrom(Tail(s), sep, Append(cur, Head(s)))

Split(s, sep) == SplitFrom(s, sep, <<>>)

RECURSIVE TrimStart(_)
TrimStart(s) ==
    IF s # <<>> /\ Head(s) \in {SP, LF} THEN TrimStart(Tail(s)) ELSE s

RECURSIVE TrimEnd(_)
TrimEnd(s) ==
    IF s # <<>> /\ s[Len(s)] \in {SP, LF}
    THEN TrimEnd(SubSeq(s, 1, Len(s) - 1)) ELSE s

\* String.prototype.trim
Trim(s) == TrimEnd(TrimStart(s))

\* line.startsWith('data:')
StartsWithData(line) == line # <<>> /\ Head(line) = DATA

\* line.slice(5).trim()
Payload(line) == Trim(Tail(line))

\* JSON.parse(payload) returns (does not throw).
JsonParses(payload) ==
    \/ payload = <<EMPTY>>
    \/ /\ Len(payload) >= 2
       /\ payload[1] = OPEN
       /\ payload[Len(payload)] = CLOSE
       /\ \A i \in 2..(Len(payload) - 1) : payload[i] \in {X, SP}

\* typeof delta.content === 'string'
HasStringContent(payload) == JsonParses(payload) /\ payload[1] = OPEN

Content(payload) == SubSeq(payload, 2, Len(payload) - 1)

\* content.split(/\s+/).filter(Boolean).length
WordCount(c) ==
    Cardinality({i \in 1..Len(c) : c[i] # SP /\ (i = 1 \/ c[i - 1] = SP)})

\* The try block of the line loop: what one payload adds to `tokens`;
\* a throwing JSON.parse is caught and adds nothing.
PayloadTokens(payload) ==
    IF HasStringContent(payload) THEN WordCount(Content(payload)) ELSE 0

\* if (payload === '[DONE]') { break }
BreaksLineLoopOnBad(payload) == payload = <<DONE>> \/ ~JsonParses(payload)
BreaksLineLoop(payload) == payload = <<DONE>>

RECURSIVE LinesTokens(_)
\* for (const line of frame.split('\n')): the tokens the lines add, up to the
\* break of the loop.
LinesTokens(lines) ==
    IF lines = <<>> THEN 0
    ELSE IF ~StartsWithData(Head(lines)) THEN LinesTokens(Tail(lines))
    ELSE IF BreaksLineLoop(Payload(Head(lines))) THEN 0
    ELSE PayloadTokens(Payload(Head(lines))) + LinesTokens(Tail(lines))

RECURSIVE FramesTokens(_)
\* for (const frame of frames): the break above leaves only the inner loop.
FramesTokens(frs) ==
    IF frs = <<>> THEN 0
    ELSE LinesTokens(Split(Head(frs), <<LF>>)) + FramesTokens(Tail(frs))

\* buffer += chunk; frames = buffer.split('\n\n'); buffer = frames.pop() || ''
\* and the loops over the frames.
ConsumeDroppingRest(buf, chunk) ==
    LET pieces == Split(chunk, <<LF, LF>>)
        n == Len(pieces)
    IN [buffer |-> pieces[n],
        added |-> FramesTokens(SubSeq(pieces, 1, n - 1))]
Consume(buf, chunk) ==
    LET pieces == Split(buf \o chunk, <<LF, LF>>)
        n == Len(pieces)
    IN [buffer |-> pieces[n],
        added |-> FramesTokens(SubSeq(pieces, 1, n - 1))]

\* if (!ttftSeen) { ttftSeen = true; ttft = performance.now()-sendAt }
TtftAfterChunkOverwrite(seen, old, elapsed) == elapsed
TtftAfterChunk(seen, old, elapsed) == IF ~seen THEN elapsed ELSE old

Infinity == -2

\* tokens / (duration/1000)
Tps(tk, dur) ==
    IF dur = 0 THEN (IF tk = 0 THEN NaN ELSE Infinity)
    ELSE (tk * 1000) \div dur

\* Time passes while run() is suspended in an await.
Elapse ==
    \E dt \in 0..1 : now + dt <= MaxClock /\ now' = now + dt

\* The sizes of the chunk read() can return from the bytes that arrived.
ChunkSizes(w) ==
    {k \in 1..Len(w) : k <= MaxChunk \/ k = Len(w)}

\* run() up to `await fetch(...)`.
RunSend ==
    /\ runPc = "start"
    /\ sendAt' = now
    /\ runPc' = "fetch"
    /\ UNCHANGED <<now, hasBody, wire, srvEnded, ttft, ttftSeen, tokens,
                   buffer, duration, tps, sent, lastTerminated, gotChunk,
                   firstChunkAt, headersSent>>
    /\ UNCHANGED <<sweepVars, pctVars, synVars, hostVars>>

\* fetch() resolves with the response headers; without a body run() goes
\* straight to its return.
FetchResolves ==
    /\ runPc = "fetch"
    /\ headersSent
    /\ Elapse
    /\ ttft' = NaN
    /\ tokens' = 0
    /\ IF hasBody
       THEN /\ buffer' = <<>>
            /\ ttftSeen' = FALSE
            /\ runPc' = "read"
            /\ UNCHANGED <<duration, tps>>
       ELSE /\ duration' = now' - sendAt
            /\ tps' = Tps(0, now' - sendAt)
            /\ runPc' = "done"
            /\ UNCHANGED <<buffer, ttftSeen>>
    /\ UNCHANGED <<hasBody, wire, srvEnded, sendAt, sent, lastTerminated,
                   gotChunk, firstChunkAt, headersSent>>
    /\ UNCHANGED <<sweepVars, pctVars, synVars, hostVars>>

\* reader.read() resolves with a chunk: one pass of the while loop.
ReadChunk ==
    /\ runPc = "read"
    /\ wire # <<>>
    /\ Elapse
    /\ \E k \in ChunkSizes(wire) :
         LET c == Consume(buffer, SubSeq(wire, 1, k)) IN
         /\ wire' = SubSeq(wire, k + 1, Len(wire))
         /\ buffer' = c.buffer
         /\ tokens' = tokens + c.added
    /\ ttft' = TtftAfterChunk(ttftSeen, ttft, now' - sendAt)
    /\ ttftSeen' = TRUE
    /\ gotChunk' = TRUE
    /\ firstChunkAt' = IF ~gotChunk THEN now' ELSE firstChunkAt
    /\ UNCHANGED <<hasBody, srvEnded, runPc, sendAt, duration, tps, sent,
                   lastTerminated, headersSent>>
    /\ UNCHANGED <<sweepVars, pctVars, synVars, hostVars>>

\* reader.read() resolves with done: the loop ends and run() returns.
ReadDone ==
    /\ runPc = "read"
    /\ wire = <<>>
    /\ srvEnded
    /\ Elapse
    /\ duration' = now' - sendAt
    /\ tps' = Tps(tokens, now' - sendAt)
    /\ runPc' = "done"
    /\ UNCHANGED <<hasBody, wire, srvEnded, sendAt, ttft, ttftSeen, tokens,
                   buffer, sent, lastTerminated, gotChunk, firstChunkAt,
                   headersSent>>
    /\ UNCHANGED <<sweepVars, pctVars, synVars, hostVars>>

\* fetch() or reader.read() rejects (connection refused or reset): run() has
\* no handler and rejects.
RunThrows ==
    /\ runPc \in {"fetch", "read"}
    /\ Elapse
    /\ runPc' = "threw"
    /\ UNCHANGED <<hasBody, wire, srvEnded, sendAt, ttft, ttftSeen, tokens,
                   buffer, duration, tps, sent, lastTerminated, gotChunk,
                   firstChunkAt, headersSent>>
    /\ UNCHANGED <<sweepVars, pctVars, synVars, hostVars>>

(***************************************************************************)
(* The synthetic mode of handleChatProxy.                                  *)
(***************************************************************************)
\* The variables of run() the server does not touch.
clientVars == <<now, hasBody, runPc, sendAt, ttft, ttftSeen, tokens, buffer,
                duration, tps, sent, lastTerminated, gotChunk, firstChunkAt>>

synParams == <<frames, delayMs, bytesPerFrame, cpuSpinMs, fanout,
               fanoutDelay, fanoutMode, useGzip>>

\* Math.max(1, Math.floor(bytesPerFrame / (word.length + 1)))
WordsPerFrame(b) == IF b \div 2 >= 1 THEN b \div 2 ELSE 1

RECURSIVE Repeat(_, _)
\* String.prototype.repeat
Repeat(str, k) == IF k <= 0 THEN <<>> ELSE str \o Repeat(str, k - 1)

\* `data: ${JSON.stringify({ choices: [{ delta: { content: text } }] })}\n\n`
\* with text = (word + ' ').repeat(wordsPerFrame)
SynFrameBytes(w) ==
    <<DATA, SP, OPEN>> \o Repeat(<<X, SP>>, w) \o <<CLOSE, LF, LF>>

\* 'data: [DONE]\n\n'
DoneFrameBytes == <<DATA, SP, DONE, LF, LF>>

\* writer.write(bytes): to the response, or to the gzip stream piped to it.
\* The response head goes out with the first bytes written to the response.
WriterWrite(bytes) ==
    /\ srvOut' = srvOut \o bytes
    /\ IF useGzip
       THEN /\ gzbuf' = gzbuf \o bytes
            /\ UNCHANGED <<wire, headersSent>>
       ELSE /\ wire' = wire \o bytes
            /\ headersSent' = TRUE
            /\ UNCHANGED gzbuf

\* for (let i = 0; i < frames; i++)
FrameLoopContinuesOffByOne(i, n) == i <= n
FrameLoopContinues(i, n) == i < n

\* The request arrives: the parameters are read and the head is prepared.
SynAccept ==
    /\ srvPc = "idle"
    /\ runPc = "fetch"
    /\ srvPc' = "fanout"
    /\ srvI' = 0
    /\ srvLog' = Append(srvLog, "head")
    /\ UNCHANGED <<gzbuf, srvOut, wire, srvEnded, headersSent>>
    /\ UNCHANGED <<synParams, clientVars, sweepVars, pctVars, hostVars>>

\* The sub-operation of one pass of the fanout loop.
FanoutOp ==
    IF fanoutMode = "http" THEN "tool"
    ELSE IF cpuSpinMs > 0 THEN "spin" ELSE "noop"

\* for (let i = 0; i < fanout; i++)
FanoutLoopContinuesOffByOne(i, n) == i < n - 1
FanoutLoopContinues(i, n) == i < n

\* One pass of the fanout loop, up to its first await: the sleep if there
\* is a fanout delay, else the sub-operation.
SynFanoutStep ==
    /\ srvPc = "fanout"
    /\ FanoutLoopContinues(srvI, fanout)
    /\ IF fanoutDelay > 0
       THEN /\ srvPc' = "fanout-slept"
            /\ srvLog' = Append(srvLog, "sleep")
            /\ UNCHANGED srvI
       ELSE /\ srvPc' = "fanout"
            /\ srvLog' = Append(srvLog, FanoutOp)
            /\ srvI' = srvI + 1
    /\ UNCHANGED <<gzbuf, srvOut, wire, srvEnded, headersSent>>
    /\ UNCHANGED <<synParams, clientVars, sweepVars, pctVars, hostVars>>

\* The sleep is over: the sub-operation of this pass.
SynFanoutOp ==
    /\ srvPc = "fanout-slept"
    /\ srvPc' = "fanout"
    /\ srvLog' = Append(srvLog, FanoutOp)
    /\ srvI' = srvI + 1
    /\ UNCHANGED <<gzbuf, srvOut, wire, srvEnded, headersSent>>
    /\ UNCHANGED <<synParams, clientVars, sweepVars, pctVars, hostVars>>

\* The fanout loop ends and the frame loop starts.
SynFanoutEnd ==
    /\ srvPc = "fanout"
    /\ ~FanoutLoopContinues(srvI, fanout)
    /\ srvPc' = "frames"
    /\ srvI' = 0
    /\ UNCHANGED <<gzbuf, srvOut, srvLog, wire, srvEnded, headersSent>>
    /\ UNCHANGED <<synParams, clientVars, sweepVars, pctVars, hostVars>>

\* One pass of the frame loop: the spin, the frame, then the sleep if there
\* is a frame delay.
SynFrame ==
    /\ srvPc = "frames"
    /\ FrameLoopContinues(srvI, frames)
    /\ WriterWrite(SynFrameBytes(WordsPerFrame(bytesPerFrame)))
    /\ srvLog' = srvLog \o (IF cpuSpinMs > 0 THEN <<"spin">> ELSE <<>>)
                        \o <<"frame">>
    /\ srvI' = srvI + 1
    /\ srvPc' = IF delayMs > 0 THEN "frame-sleep" ELSE "frames"
    /\ UNCHANGED srvEnded
    /\ UNCHANGED <<synParams, clientVars, sweepVars, pctVars, hostVars>>

SynFrameWake ==
    /\ srvPc = "frame-sleep"
    /\ srvPc' = "frames"
    /\ UNCHANGED <<srvI, gzbuf, srvOut, srvLog, wire, srvEnded, headersSent>>
    /\ UNCHANGED <<synParams, clientVars, sweepVars, pctVars, hostVars>>

\* After the loop: the sentinel, then the end of the writer.
SynFinish ==
    /\ srvPc = "frames"
    /\ ~FrameLoopContinues(srvI, frames)
    /\ WriterWrite(DoneFrameBytes)
    /\ srvLog' = srvLog \o <<"sentinel", "end">>
    /\ srvPc' = "ended"
    /\ srvEnded' = ~useGzip
    /\ UNCHANGED srvI
    /\ UNCHANGED <<synParams, clientVars, sweepVars, pctVars, hostVars>>

\* The gzip stream hands what it holds to the response; once the writer was
\* ended this also ends the response.
GzipFlush ==
    /\ useGzip
    /\ gzbuf # <<>> \/ (srvPc = "ended" /\ ~srvEnded)
    /\ wire' = wire \o gzbuf
    /\ gzbuf' = <<>>
    /\ headersSent' = TRUE
    /\ srvEnded' = (srvPc = "ended")
    /\ UNCHANGED <<srvPc, srvI, srvOut, srvLog>>
    /\ UNCHANGED <<synParams, clientVars, sweepVars, pctVars, hostVars>>

(***************************************************************************)
(* main() of the multi-target orchestrator (the quad runner that builds,   *)
(* starts, probes and sweeps the targets) and the processes it manages.    *)
(***************************************************************************)
\* const def = ['elide','express','fastapi','flask']
TargetOrder == <<"elide", "express", "fastapi", "flask">>
Targets == {TargetOrder[i] : i \in 1..Len(TargetOrder)}

\* The targets main() builds before it starts them.
HasBuild(t) == t \in {"elide", "express"}

\* The targets whose server process runs the server in processes of its
\* own: pnpm runs the start script, gunicorn forks its worker.
HasDescendants(t) == t \in {"elide", "express", "flask"}

\* timeoutMs and the sleep between two probes, in probe intervals.
HealthTimeout == 2
AfterSleepFrozen(e) == e
AfterSleep(e) == e + 1

\* while (Date.now() - t0 < timeoutMs)
ProbeLoopContinues(e) == e < HealthTimeout

\* The least index from i on whose target is in S, or one past the last.
NextIn(i, S) ==
    LET js == {j \in i..Len(TargetOrder) : TargetOrder[j] \in S}
    IN  IF js = {} THEN Len(TargetOrder) + 1
        ELSE CHOOSE j \in js : \A k \in js : j <= k

\* The targets main() starts itself.
Managed == IF startAll THEN targets ELSE {}

orchConfig == <<targets, startAll, sequential, tiers, platform>>

\* startServer(name, ...): the child is spawned, and the server in it.
StartServer(t) ==
    /\ proc' = [proc EXCEPT ![t] = "running"]
    /\ desc' = [desc EXCEPT ![t] =
                   IF HasDescendants(t) THEN "running" ELSE "none"]

\* p.on('exit', c => c === 0 ? resolve() : reject(...))
BuildSucceededAlways(code) == TRUE
BuildSucceeded(code) == code = 0

\* The launch block of one target: spawn its build, or start it at once.
\* After the last target main() enters the try block and calls probe() for
\* every selected target: each runs up to its first await, the fetch.
OrchLaunch ==
    /\ orchPc = "launch"
    /\ LET j == NextIn(orchAt, Managed)
       IN  IF j > Len(TargetOrder)
           THEN /\ orchPc' = "probe"
                /\ orchAt' = 1
                /\ probeSt' = [t \in Targets |->
                                  IF t \in targets THEN "fetching" ELSE "idle"]
                /\ UNCHANGED <<build, proc, desc>>
           ELSE IF HasBuild(TargetOrder[j])
           THEN /\ build' = [build EXCEPT ![TargetOrder[j]] = "running"]
                /\ orchPc' = "building"
                /\ orchAt' = j
                /\ UNCHANGED <<proc, desc, probeSt>>
           ELSE /\ StartServer(TargetOrder[j])
                /\ orchAt' = j + 1
                /\ UNCHANGED <<orchPc, build, probeSt>>
    /\ UNCHANGED <<orchConfig, tierIdx, killedTree, waited, healthy, sweepSt,
                   written, orchErr, cancelled, benchVars, statusVars>>

\* The build process exits.  With code 0 the server is started; otherwise
\* the promise rejects, main() rejects outside its try block and the
\* process exits with code 1.
OrchBuildExit ==
    /\ orchPc = "building"
    /\ \E code \in {0, 1} :
          IF BuildSucceeded(code)
          THEN /\ build' = [build EXCEPT ![TargetOrder[orchAt]] =
                               IF code = 0 THEN "ok" ELSE "failed"]
               /\ StartServer(TargetOrder[orchAt])
               /\ orchAt' = orchAt + 1
               /\ orchPc' = "launch"
          ELSE /\ build' = [build EXCEPT ![TargetOrder[orchAt]] = "failed"]
               /\ orchPc' = "failed"
               /\ UNCHANGED <<proc, desc, orchAt>>
    /\ UNCHANGED <<orchConfig, tierIdx, killedTree, probeSt, waited, healthy,
                   sweepSt, written, orchErr, cancelled, benchVars, statusVars>>

\* probe(): healthy[name] = true once waitHealthy() has returned.
MarksHealthyAlways(ok) == TRUE
MarksHealthy(ok) == ok

\* The fetch of a probe settles, at once or after a while: with r.ok the
\* probe returns, else (not ok, or rejected) it sleeps.
ProbeFetchSettles(t) ==
    /\ orchPc = "probe"
    /\ probeSt[t] = "fetching"
    /\ \E ok \in BOOLEAN, dt \in {0, 1} :
          /\ waited' = [waited EXCEPT ![t] = IF ok THEN 0 ELSE @ + dt]
          /\ probeSt' = [probeSt EXCEPT ![t] = IF ok THEN "ok" ELSE "sleeping"]
          /\ healthy' = [healthy EXCEPT ![t] = IF ok THEN MarksHealthy(ok) ELSE @]
    /\ UNCHANGED <<orchConfig, orchPc, orchAt, tierIdx, build, proc, desc,
                   killedTree, sweepSt, written, orchErr, cancelled, benchVars, statusVars>>

\* The sleep is over and the loop condition is read: the next fetch, or
\* the throw that probe() catches and logs.
ProbeSleepDone(t) ==
    /\ orchPc = "probe"
    /\ probeSt[t] = "sleeping"
    /\ LET e == AfterSleep(waited[t])
       IN  /\ waited' = [waited EXCEPT ![t] =
                            IF ProbeLoopContinues(e) THEN e ELSE 0]
           /\ probeSt' = [probeSt EXCEPT ![t] =
                             IF ProbeLoopContinues(e) THEN "fetching"
                             ELSE "timeout"]
           /\ healthy' = [healthy EXCEPT ![t] =
                             IF ProbeLoopContinues(e) THEN @
                             ELSE MarksHealthy(FALSE)]
    /\ UNCHANGED <<orchConfig, orchPc, orchAt, tierIdx, build, proc, desc,
                   killedTree, sweepSt, written, orchErr, cancelled, benchVars, statusVars>>

\* writeFail(out, name, err): the placeholder, labeled with the error.
WriteFailNothing(w, t, k, msg) == w
WriteFail(w, t, k, msg) == [w EXCEPT ![<<t, k>>] = @ \cup {msg}]

\* The sweep child writes its report to the same path before it exits 0.
WriteResult(w, t, k) == [w EXCEPT ![<<t, k>>] = @ \cup {"result"}]

\* Promise.all(probes) resolves; then mkdirSync, which may throw, and the
\* first runForTier.
OrchAfterProbes ==
    /\ orchPc = "probe"
    /\ \A t \in targets : probeSt[t] \in {"ok", "timeout"}
    /\ \E mkdirOk \in BOOLEAN :
          IF mkdirOk
          THEN /\ orchPc' = "tier"
               /\ tierIdx' = 1
               /\ UNCHANGED orchErr
          ELSE /\ orchPc' = "finally"
               /\ orchErr' = TRUE
               /\ UNCHANGED tierIdx
    /\ orchAt' = 1
    /\ UNCHANGED <<orchConfig, build, proc, desc, killedTree, probeSt, waited,
                   healthy, sweepSt, written, cancelled, benchVars, statusVars>>

\* runForTier has returned: the next tier, or the finally block.
TierDone ==
    /\ orchAt' = 1
    /\ IF tierIdx < tiers
       THEN /\ tierIdx' = tierIdx + 1
            /\ orchPc' = "tier"
       ELSE /\ orchPc' = "finally"
            /\ UNCHANGED tierIdx

\* if (healthy.elide) { ... runSweep(...) ... } else { writeFail(...) }
SweepsTargetAlways(h, t) == TRUE
SweepsTarget(h, t) == h[t]

\* Sequential mode, the line of one target: its sweep is spawned when it
\* is healthy, else its placeholder is written.
OrchSeqStep ==
    /\ orchPc = "tier"
    /\ sequential
    /\ LET j == NextIn(orchAt, targets)
       IN  IF j > Len(TargetOrder)
           THEN /\ TierDone
                /\ UNCHANGED <<sweepSt, written>>
           ELSE IF SweepsTarget(healthy, TargetOrder[j])
           THEN /\ sweepSt' = [sweepSt EXCEPT ![TargetOrder[j]] = "running"]
                /\ orchPc' = "sweeping"
                /\ orchAt' = j
                /\ UNCHANGED <<tierIdx, written>>
           ELSE /\ written' = WriteFail(written, TargetOrder[j], tierIdx,
                                        "not healthy")
                /\ orchAt' = j + 1
                /\ UNCHANGED <<orchPc, tierIdx, sweepSt>>
    /\ UNCHANGED <<orchConfig, build, proc, desc, killedTree, probeSt, waited,
                   healthy, orchErr, cancelled, benchVars, statusVars>>

\* try { await runSweep(...) } catch (e) { writeFail(...) }
CatchesSweepFailureNever == FALSE
CatchesSweepFailure == TRUE

\* Sequential mode: the sweep child exits.
OrchSeqSweepExit ==
    /\ orchPc = "sweeping"
    /\ \E code \in {0, 1} :
          IF code = 0 \/ CatchesSweepFailure
          THEN /\ written' = IF code = 0
                             THEN WriteResult(written, TargetOrder[orchAt], tierIdx)
                             ELSE WriteFail(written, TargetOrder[orchAt], tierIdx,
                                            "exited")
               /\ orchPc' = "tier"
               /\ orchAt' = orchAt + 1
               /\ UNCHANGED orchErr
          ELSE /\ orchPc' = "finally"
               /\ orchErr' = TRUE
               /\ orchAt' = 1
               /\ UNCHANGED written
    /\ sweepSt' = [sweepSt EXCEPT ![TargetOrder[orchAt]] = "idle"]
    /\ UNCHANGED <<orchConfig, tierIdx, build, proc, desc, killedTree, probeSt,
                   waited, healthy, cancelled, benchVars, statusVars>>

\* Parallel mode: the sweeps of the healthy targets are spawned together
\* and the placeholders of the others are written.
OrchParStart ==
    /\ orchPc = "tier"
    /\ ~sequential
    /\ sweepSt' = [t \in Targets |->
                      IF t \in targets /\ SweepsTarget(healthy, t)
                      THEN "running" ELSE "idle"]
    /\ written' = [p \in DOMAIN written |->
                      IF p[1] \in targets /\ ~SweepsTarget(healthy, p[1])
                         /\ p[2] = tierIdx
                      THEN written[p] \cup {"not healthy"} ELSE written[p]]
    /\ orchPc' = "settling"
    /\ UNCHANGED <<orchConfig, orchAt, tierIdx, build, proc, desc, killedTree,
                   probeSt, waited, healthy, orchErr, cancelled, benchVars, statusVars>>

\* Parallel mode: one sweep child exits.
OrchParSweepExit(t) ==
    /\ orchPc = "settling"
    /\ sweepSt[t] = "running"
    /\ \E code \in {0, 1} :
          /\ sweepSt' = [sweepSt EXCEPT ![t] =
                            IF code = 0 THEN "fulfilled" ELSE "rejected"]
          /\ written' = IF code = 0 THEN WriteResult(written, t, tierIdx)
                        ELSE written
    /\ UNCHANGED <<orchConfig, orchPc, orchAt, tierIdx, build, proc, desc,
                   killedTree, probeSt, waited, healthy, orchErr, cancelled,
                   benchVars, statusVars>>

\* if (r.status==='rejected') writeFail(...)
SettledFailuresNone(st) == {}
SettledFailures(st) == {t \in Targets : st[t] = "rejected"}

\* Parallel mode: Promise.allSettled(jobs) resolves.
OrchParSettled ==
    /\ orchPc = "settling"
    /\ \A t \in Targets : sweepSt[t] # "running"
    /\ written' = [p \in DOMAIN written |->
                      IF p[1] \in SettledFailures(sweepSt) /\ p[2] = tierIdx
                      THEN written[p] \cup {"exited"} ELSE written[p]]
    /\ sweepSt' = [t \in Targets |-> "idle"]
    /\ TierDone
    /\ UNCHANGED <<orchConfig, build, proc, desc, killedTree, probeSt, waited,
                   healthy, orchErr, cancelled, benchVars, statusVars>>

\* killTree(pid): taskkill /T /F on win32, process.kill(pid, 'SIGKILL')
\* elsewhere, which signals the one process.
KillTree(t) ==
    /\ proc' = [proc EXCEPT ![t] = "dead"]
    /\ desc' = [desc EXCEPT ![t] =
                   IF @ = "running" /\ platform = "win32" THEN "dead" ELSE @]
    /\ killedTree' = [killedTree EXCEPT ![t] = TRUE]

\* The finally block: killTree for each handle that is set, then main()
\* returns, or rejects and the process exits with code 1.
OrchKill ==
    /\ orchPc = "finally"
    /\ LET j == NextIn(orchAt, {t \in Targets : proc[t] # "none"})
       IN  IF j > Len(TargetOrder)
           THEN /\ orchPc' = IF orchErr THEN "failed" ELSE "done"
                /\ UNCHANGED <<orchAt, proc, desc, killedTree>>
           ELSE /\ KillTree(TargetOrder[j])
                /\ orchAt' = j + 1
                /\ UNCHANGED orchPc
    /\ UNCHANGED <<orchConfig, tierIdx, build, probeSt, waited, healthy,
                   sweepSt, written, orchErr, cancelled, benchVars, statusVars>>

\* POST /bench/run-cli/cancel: process.kill(pid) ends the orchestrator
\* where it stands, if it has not ended yet.
OrchCancel ==
    /\ ~cancelled
    /\ cancelled' = TRUE
    /\ orchPc' = IF orchPc \in {"done", "failed"} THEN orchPc ELSE "killed"
    /\ UNCHANGED <<orchConfig, orchAt, tierIdx, build, proc, desc, killedTree,
                   probeSt, waited, healthy, sweepSt, written, orchErr,
                   benchVars, statusVars>>

OrchIdle ==
    /\ targets = {}
    /\ startAll = FALSE
    /\ sequential = FALSE
    /\ tiers = 1
    /\ platform = "posix"
    /\ orchPc = "idle"
    /\ orchAt = 1
    /\ tierIdx = 0
    /\ build = [t \in Targets |-> "none"]
    /\ proc = [t \in Targets |-> "none"]
    /\ desc = [t \in Targets |-> "none"]
    /\ killedTree = [t \in Targets |-> FALSE]
    /\ probeSt = [t \in Targets |-> "idle"]
    /\ waited = [t \in Targets |-> 0]
    /\ healthy = [t \in Targets |-> FALSE]
    /\ sweepSt = [t \in Targets |-> "idle"]
    /\ written = [p \in Targets \X (1..MaxTiers) |-> {}]
    /\ orchErr = FALSE
    /\ cancelled = FALSE

(***************************************************************************)
(* The run-cli endpoints of the server (apps/server-elide/src/index.ts):   *)
(* POST /bench/run-cli spawns the orchestrator and registers the run, GET  *)
(* /bench/run-cli/stream subscribes a response to the events of the run,   *)
(* POST /bench/run-cli/cancel cancels it.  One run (one pid) is modelled;  *)
(* every handler and every callback runs to its end without interleaving.  *)
(***************************************************************************)
Subs == 1..MaxSubs

\* The statuses CLI_RUNS can hold apart from 'running'.
TerminalStatuses == {"done", "error"}

\* An event as sseWrite() puts it on a response: its type and the status
\* field of its data ("" when the data has none).
Ev(type, st) == [type |-> type, status |-> st]

\* What the process listing can answer: the command fails (the process has
\* exited, the tool is missing), it prints fewer than two fields, it prints
\* fields that are not numbers, or it prints a reading.
FailedReads == {[kind |-> k, cpu |-> 0, rss |-> 0] :
                    k \in {"throws", "short", "unparsable"}}
Readings == {[kind |-> "ok", cpu |-> c, rss |-> r] :
                    c \in 0..MaxCpu, r \in 1..MaxRss}
ReadOutcomes == FailedReads \cup Readings

Null == [ok |-> FALSE, cpuSeconds |-> 0, rssBytes |-> 0]

\* Number.isFinite() guards the win32 branch only.
ChecksFinite(plat) == plat = "win32"

\* sampleProcessOnce(pid): null when the command throws or prints fewer
\* than two fields; fields that are not numbers come back as NaN, which
\* only the win32 branch turns into null.
sampleProcessOnce(plat, out) ==
    CASE out.kind = "throws" -> Null
      [] out.kind = "short" -> Null
      [] out.kind = "unparsable" ->
            IF ChecksFinite(plat) THEN Null
            ELSE [ok |-> TRUE, cpuSeconds |-> NaN, rssBytes |-> NaN]
      [] OTHER -> [ok |-> TRUE, cpuSeconds |-> out.cpu, rssBytes |-> out.rss]

\* broadcast(pid, type, data): sseWrite() to every response of the set.
Broadcast(d, S, e) == [s \in Subs |-> IF s \in S THEN Append(d[s], e) ELSE d[s]]

\* Log and sample events are delivered while the histories have room for
\* them: a history holds at most MaxEvents of them.
OutputCount(seq) ==
    Cardinality({i \in 1..Len(seq) : seq[i].type \in {"log", "sample"}})
CanDeliver == \A s \in cliSubs : OutputCount(delivered[s]) < MaxEvents

ReplaysStatusWhileRunning(info) == info = "running"

\* `if (info) sseWrite(res, 'status', ...)` of the stream endpoint.
ReplaysStatus(info) == info # "absent"

\* GET /bench/run-cli/stream?pid=: the response joins the set of the pid
\* and is sent the status of the run when the run is registered.
LiveSubscribe(s) ==
    /\ conn[s] = "fresh"
    /\ conn' = [conn EXCEPT ![s] = "open"]
    /\ cliSubs' = cliSubs \cup {s}
    /\ delivered' = [delivered EXCEPT ![s] =
            IF ReplaysStatus(cliRuns) THEN <<Ev("status", cliRuns)>> ELSE <<>>]
    /\ joinedAt' = [joinedAt EXCEPT ![s] = cliRuns]
    /\ UNCHANGED <<hostPlatform, child, cliRuns, samplerOn, samplerLast,
                   atCancel, cancelledRunning, smpVars, anVars,
                   pageVars, orchVars, benchVars>>

\* req.on('close'): the client went away, its response leaves the set.
LiveDisconnect(s) ==
    /\ conn[s] = "open"
    /\ conn' = [conn EXCEPT ![s] = "closed"]
    /\ cliSubs' = cliSubs \ {s}
    /\ UNCHANGED <<hostPlatform, child, cliRuns, samplerOn, samplerLast,
                   delivered, joinedAt, atCancel, cancelledRunning,
                   smpVars, anVars, pageVars, orchVars, benchVars>>

\* POST /bench/run-cli: spawn, register the run as running, take the first
\* reading and start the sampler when there is one, broadcast 'start'.
LiveStart ==
    /\ child = "none"
    /\ child' = "running"
    /\ cliRuns' = "running"
    /\ \E out \in ReadOutcomes :
         LET first == sampleProcessOnce(hostPlatform, out) IN
           /\ samplerOn' = first.ok
           /\ samplerLast' = IF first.ok THEN first.cpuSeconds ELSE 0
    /\ delivered' = Broadcast(delivered, cliSubs, Ev("start", ""))
    /\ UNCHANGED <<hostPlatform, cliSubs, conn, joinedAt, atCancel, 
                   cancelledRunning, smpVars, anVars, pageVars, orchVars, benchVars>>

\* p.stdout / p.stderr 'data': a chunk of output is broadcast as 'log'.  The
\* pipes deliver what the process wrote until the close event.
LiveLog ==
    /\ child \in {"running", "exited0", "exited1", "killed"}
    /\ CanDeliver
    /\ delivered' = Broadcast(delivered, cliSubs, Ev("log", ""))
    /\ UNCHANGED <<hostPlatform, child, cliRuns, cliSubs, samplerOn,
                   samplerLast, conn, joinedAt, atCancel, 
                   cancelledRunning, smpVars, anVars, pageVars, orchVars, benchVars>>

\* The callback of setInterval(..., 500): no reading, no event; a reading
\* becomes the baseline and is broadcast as 'sample'.
LiveTick(out) ==
    /\ samplerOn
    /\ LET cur == sampleProcessOnce(hostPlatform, out) IN
         IF ~cur.ok
         THEN UNCHANGED <<samplerLast, delivered>>
         ELSE /\ CanDeliver
              /\ samplerLast' = cur.cpuSeconds
              /\ delivered' = Broadcast(delivered, cliSubs, Ev("sample", ""))
    /\ UNCHANGED <<hostPlatform, child, cliRuns, cliSubs, samplerOn, conn,
                   joinedAt, atCancel, cancelledRunning, smpVars,
                   anVars, pageVars, orchVars, benchVars>>

\* The spawned process exits by itself; its close event is still to come.
LiveExit ==
    /\ child = "running"
    /\ child' \in {"exited0", "exited1"}
    /\ UNCHANGED <<hostPlatform, cliRuns, cliSubs, samplerOn, samplerLast,
                   conn, delivered, joinedAt, atCancel, 
                   cancelledRunning, smpVars, anVars, pageVars, orchVars, benchVars>>

\* `code === 0 ? 'done' : 'error'`; a process ended by a signal closes with
\* the code null.
CloseStatus(c) == IF c = "exited0" THEN "done" ELSE "error"

\* p.on('close'): record the status, stop the sampler, broadcast 'done',
\* end every subscribed response and drop the set.
LiveClose ==
    /\ child \in {"exited0", "exited1", "killed"}
    /\ child' = "closed"
    /\ cliRuns' = CloseStatus(child)
    /\ samplerOn' = FALSE
    /\ samplerLast' = 0
    /\ delivered' = Broadcast(delivered, cliSubs, Ev("done", CloseStatus(child)))
    /\ conn' = [s \in Subs |-> IF s \in cliSubs THEN "ended" ELSE conn[s]]
    /\ cliSubs' = {}
    /\ UNCHANGED <<hostPlatform, joinedAt, atCancel, cancelledRunning,
                   smpVars, anVars, pageVars, orchVars, benchVars>>

CancelKeepsSampler == FALSE

\* `const s = CLI_SAMPLERS.get(pid); if (s) { clearInterval; delete }` of
\* the cancel endpoint.
CancelStopsSampler == TRUE

\* POST /bench/run-cli/cancel?pid=: process.kill(pid), set the status of a
\* registered run to 'error', stop the sampler, broadcast 'done' with the
\* status 'error', end every subscribed response and drop the set.
LiveCancel ==
    /\ child' = IF child = "running" THEN "killed" ELSE child
    /\ cliRuns' = IF cliRuns # "absent" THEN "error" ELSE cliRuns
    /\ cancelledRunning' = (cancelledRunning \/ cliRuns = "running")
    /\ IF CancelStopsSampler
       THEN samplerOn' = FALSE /\ samplerLast' = 0
       ELSE UNCHANGED <<samplerOn, samplerLast>>
    /\ delivered' = Broadcast(delivered, cliSubs, Ev("done", "error"))
    /\ conn' = [s \in Subs |-> IF s \in cliSubs THEN "ended" ELSE conn[s]]
    /\ atCancel' = [s \in Subs |-> atCancel[s] \/ s \in cliSubs]
    /\ cliSubs' = {}
    /\ UNCHANGED <<hostPlatform, joinedAt, smpVars, anVars, pageVars, orchVars,
                   benchVars>>

\* No run has been started and no response has subscribed.
NoRun ==
    /\ child = "none"
    /\ cliRuns = "absent"
    /\ cliSubs = {}
    /\ samplerOn = FALSE
    /\ samplerLast = 0
    /\ conn = [s \in Subs |-> "fresh"]
    /\ delivered = [s \in Subs |-> <<>>]
    /\ joinedAt = [s \in Subs |-> "fresh"]
    /\ atCancel = [s \in Subs |-> FALSE]
    /\ cancelledRunning = FALSE

LiveIdle == hostPlatform = "posix" /\ NoRun

(***************************************************************************)
(* The sampler of sweep() in packages/bench/src/wrk2.ts (SAMPLING_PID) and *)
(* the 'sample' listener of the page (apps/ui/src/App.tsx).                *)
(***************************************************************************)
\* JavaScript's a - b and a >= b on numbers that may be NaN.
JsSub(a, b) == IF a = NaN \/ b = NaN THEN NaN ELSE a - b
JsGeq(a, b) == a # NaN /\ b # NaN /\ a >= b

\* `let lastSample = sampPid ? sampleProcessOnce(sampPid) : null` and
\* `if (sampPid && lastSample) timer = setInterval(..., 250)`.
SweepSamplerStart ==
    /\ smpPc = "start"
    /\ smpPc' = "sampling"
    /\ \E hasPid \in BOOLEAN : \E out \in ReadOutcomes :
         LET first == IF hasPid THEN sampleProcessOnce(hostPlatform, out)
                                ELSE Null IN
           /\ lastSample' = first
           /\ timer' = (hasPid /\ first.ok)
    /\ UNCHANGED <<cpuPercents, rssMBs, cliSamples, liveVars, anVars,
                   pageVars, orchVars, benchVars>>

\* The callback of the interval: a reading taken after a baseline pushes
\* the CPU share (when the CPU time did not go back) and the resident size,
\* and becomes the baseline.  dt is positive between two ticks; the share
\* is kept as the difference of the CPU times.
SweepSamplerTick(out) ==
    /\ smpPc = "sampling"
    /\ timer
    /\ Len(rssMBs) < MaxRetained
    /\ LET cur == sampleProcessOnce(hostPlatform, out)
           dCpu == JsSub(cur.cpuSeconds, lastSample.cpuSeconds) IN
         IF cur.ok /\ lastSample.ok
         THEN /\ cpuPercents' = IF JsGeq(dCpu, 0) THEN Append(cpuPercents, dCpu)
                                                  ELSE cpuPercents
              /\ rssMBs' = Append(rssMBs, cur.rssBytes)
              /\ lastSample' = cur
         ELSE UNCHANGED <<cpuPercents, rssMBs, lastSample>>
    /\ UNCHANGED <<smpPc, timer, cliSamples, liveVars, anVars, pageVars, orchVars,
                   benchVars>>

\* The workers have finished: `if (timer) clearInterval(timer)`.
SweepSamplerStop ==
    /\ smpPc = "sampling"
    /\ smpPc' = "done"
    /\ timer' = FALSE
    /\ UNCHANGED <<lastSample, cpuPercents, rssMBs, cliSamples, liveVars,
                   anVars, pageVars, orchVars, benchVars>>

\* arr.slice(-n)
SliceLast(arr, n) == SubSeq(arr, Len(arr) - n + 1, Len(arr))

\* `arr = prev.concat(d); return arr.length > 240 ? arr.slice(-240) : arr`,
\* with the capacity of the page scaled down to SampleCap.
PushSample(prev, d) ==
    LET arr == Append(prev, d) IN
      IF Len(arr) > SampleCap THEN SliceLast(arr, SampleCap) ELSE arr

\* The 'sample' listener of the page receives the event d.
UiOnSample(d) ==
    /\ smpPc # "idle"
    /\ cliSamples' = PushSample(cliSamples, d)
    /\ UNCHANGED <<smpPc, timer, lastSample, cpuPercents, rssMBs, liveVars,
                   anVars, pageVars, orchVars, benchVars>>

SmpIdle ==
    /\ smpPc = "idle"
    /\ timer = FALSE
    /\ lastSample = Null
    /\ cpuPercents = <<>>
    /\ rssMBs = <<>>
    /\ cliSamples = <<>>

(***************************************************************************)
(* The comparative analysis of the index generator (src/unnamed/part_010,  *)
(* copied in part_008): one scenario with the row of elide, which is the   *)
(* baseline, and one other row.  A percent difference is kept exact, as    *)
(* the fraction num / den with den > 0.                                    *)
(***************************************************************************)
Metrics == {"rps", "ttft_p50", "ttft_p95", "dur_p95"}

Abs(x) == IF x < 0 THEN -x ELSE x

\* calculatePercentDiff(baseline, comparison): NaN when either is missing
\* or zero, else ((comparison - baseline) / baseline) * 100.
calculatePercentDiff(b, c) ==
    IF b = 0 \/ c = 0 THEN [nan |-> TRUE, num |-> 0, den |-> 1]
    ELSE [nan |-> FALSE, num |-> (c - b) * 100, den |-> b]

\* Math.abs(diff) < k and Math.abs(diff) > k.
MagnitudeBelow(diff, k) == Abs(diff.num) < k * diff.den
MagnitudeAbove(diff, k) == Abs(diff.num) > k * diff.den

NoInsight == [found |-> FALSE, better |-> "", worse |-> "", significance |-> ""]

\* `let significance = 'marginal'; if (magnitude > 50) ... else if
\* (magnitude > 20) ...`
Significance(diff) ==
    IF MagnitudeAbove(diff, 50) THEN "significant"
    ELSE IF MagnitudeAbove(diff, 20) THEN "notable"
    ELSE "marginal"

\* getPerformanceInsight(): null under 5 percent, else the finding; the
\* better server is chosen from the sign of diff alone, for every metric.
getPerformanceInsight(metric, b, c, baselineServer, comparisonServer) ==
    LET diff == calculatePercentDiff(b, c) IN
      IF diff.nan \/ MagnitudeBelow(diff, 5) THEN NoInsight
      ELSE [found |-> TRUE,
            better |-> IF diff.num > 0 THEN comparisonServer ELSE baselineServer,
            worse |-> IF diff.num > 0 THEN baselineServer ELSE comparisonServer,
            significance |-> Significance(diff)]

\* getComparisonClass(metric, value) for a row that is not the baseline.
getComparisonClass(metric, base, value) ==
    IF value = 0 \/ base = 0 THEN "perf-neutral"
    ELSE LET diff == calculatePercentDiff(base, value)
             higherIsBetter == metric = "rps"
             isBetter == IF higherIsBetter THEN diff.num > 0 ELSE diff.num < 0 IN
           IF MagnitudeBelow(diff, 5) THEN "perf-neutral"
           ELSE IF isBetter THEN "perf-better" ELSE "perf-worse"

\* generateComparativeAnalysis() for the pair of rows and one metric:
\* getPerformanceInsight(metric, other[metric], baseline[metric],
\* other.server, baseline.server); and the cell of the other row in the
\* table of the scenario.
AnalyzePair ==
    /\ anPc = "ready"
    /\ anPc' = "done"
    /\ insight' = getPerformanceInsight(anMetric, otherRow, elideRow,
                                        "other", "elide")
    /\ cmpClass' = getComparisonClass(anMetric, elideRow, otherRow)
    /\ UNCHANGED <<anMetric, elideRow, otherRow, liveVars, smpVars, pageVars, orchVars,
                   benchVars>>

AnIdle ==
    /\ anPc = "idle"
    /\ anMetric = "rps"
    /\ elideRow = 0
    /\ otherRow = 0
    /\ insight = NoInsight
    /\ cmpClass = "perf-neutral"

(***************************************************************************)
(* The analysis of a whole set of reports (src/unnamed/part_010): the Map  *)
(* `scenarios` holds, per scenario, the rows of the servers in the order   *)
(* the reports were read.  A scenario is named by its concurrency; a cell  *)
(* that a report lacks is NaN.  A slope is kept exact, as the fraction     *)
(* num / den with den > 0.                                                 *)
(***************************************************************************)
NoFindings == [insights |-> <<>>, patterns |-> <<>>, bottlenecks |-> <<>>]

\* `if (x && ...)` on a number: NaN and 0 are falsy.
Truthy(v) == v # NaN /\ v # 0

\* A cell as the pair analysis above takes it, with 0 for a falsy one.
Num0(v) == IF v = NaN THEN 0 ELSE v

\* `const insights = []`, `const bottlenecks = []`: every call builds its
\* result in an array of its own.
KeptArray(old) == old
NewArray(old) == <<>>

\* Math.abs(a) >= Math.abs(b) for two percent differences.
MagnitudeGeq(a, b) == Abs(a.num) * b.den >= Abs(b.num) * a.den

RECURSIVE InsertByMagnitude(_, _)
InsertByMagnitude(arr, e) ==
    IF arr = <<>> THEN <<e>>
    ELSE IF MagnitudeGeq(Head(arr).magnitude, e.magnitude)
    THEN <<Head(arr)>> \o InsertByMagnitude(Tail(arr), e)
    ELSE <<e>> \o arr

RECURSIVE SortByMagnitude(_)
\* insights.sort((a, b) => b.magnitude - a.magnitude): stable, descending.
SortByMagnitude(arr) ==
    IF arr = <<>> THEN <<>>
    ELSE InsertByMagnitude(SortByMagnitude(SubSeq(arr, 1, Len(arr) - 1)),
                           arr[Len(arr)])

InsightMetrics == <<"rps", "ttft_p50", "ttft_p95", "dur_p95">>

RECURSIVE MetricInsights(_, _, _, _)
\* The loop over the metrics for one row `other` against the baseline.
MetricInsights(key, other, baseline, ms) ==
    IF ms = <<>> THEN <<>>
    ELSE LET found == getPerformanceInsight(Head(ms), Num0(other[Head(ms)]),
                          Num0(baseline[Head(ms)]), other.server,
                          baseline.server)
         IN (IF found.found
             THEN << [scenario |-> key,
                      comparison |-> <<other.server, baseline.server>>,
                      metric |-> Head(ms),
                      insight |-> found,
                      magnitude |-> calculatePercentDiff(
                                        Num0(other[Head(ms)]),
                                        Num0(baseline[Head(ms)]))] >>
             ELSE <<>>)
            \o MetricInsights(key, other, baseline, Tail(ms))

RECURSIVE OthersInsights(_, _, _)
OthersInsights(key, others, baseline) ==
    IF others = <<>> THEN <<>>
    ELSE MetricInsights(key, Head(others), baseline, InsightMetrics)
         \o OthersInsights(key, Tail(others), baseline)

IsElide(row) == row.server = "elide"
IsNotElide(row) == row.server # "elide"

\* The body of the loop over the scenarios: skipped with fewer than two
\* rows or without a row of elide.
ScenarioInsights(s) ==
    IF Len(s.rows) < 2 \/ SelectSeq(s.rows, IsElide) = <<>> THEN <<>>
    ELSE OthersInsights(s.conc, SelectSeq(s.rows, IsNotElide),
                        Head(SelectSeq(s.rows, IsElide)))

RECURSIVE CollectInsights(_, _)
CollectInsights(acc, sc) ==
    IF sc = <<>> THEN acc
    ELSE CollectInsights(acc \o ScenarioInsights(Head(sc)), Tail(sc))

\* generateComparativeAnalysis(scenarios)
generateComparativeAnalysis(acc, sc) == SortByMagnitude(CollectInsights(acc, sc))

\* row.ttft_p99 && row.ttft_p50 && row.ttft_p99 > row.ttft_p50 * 3
HighTtftVarianceFromThree(row) ==
    Truthy(row.ttft_p99) /\ Truthy(row.ttft_p50)
        /\ row.ttft_p99 >= row.ttft_p50 * 3
HighTtftVariance(row) ==
    Truthy(row.ttft_p99) /\ Truthy(row.ttft_p50)
        /\ row.ttft_p99 > row.ttft_p50 * 3

\* expectedMinRps = conc * 0.5; row.rps && row.rps < expectedMinRps
LowThroughput(row, conc) == Truthy(row.rps) /\ 2 * row.rps < conc

\* row.dur_p95 && row.dur_p50 && row.dur_p95 > row.dur_p50 * 2
HighDurationVariance(row) ==
    Truthy(row.dur_p95) /\ Truthy(row.dur_p50)
        /\ row.dur_p95 > row.dur_p50 * 2

\* The array `issues` of one row.
Issues(row, conc) ==
    (IF HighTtftVariance(row) THEN <<"high_ttft_variance">> ELSE <<>>)
    \o (IF LowThroughput(row, conc) THEN <<"low_throughput">> ELSE <<>>)
    \o (IF HighDurationVariance(row) THEN <<"high_duration_variance">>
        ELSE <<>>)

RECURSIVE RowsBottlenecks(_, _)
RowsBottlenecks(rs, conc) ==
    IF rs = <<>> THEN <<>>
    ELSE (IF Issues(Head(rs), conc) # <<>>
          THEN << [scenario |-> conc, framework |-> Head(rs).server,
                   issues |-> Issues(Head(rs), conc)] >>
          ELSE <<>>)
         \o RowsBottlenecks(Tail(rs), conc)

RECURSIVE detectBottlenecks(_, _)
\* detectBottlenecks(scenarios)
detectBottlenecks(acc, sc) ==
    IF sc = <<>> THEN acc
    ELSE detectBottlenecks(acc \o RowsBottlenecks(Head(sc).rows, Head(sc).conc),
                           Tail(sc))

RECURSIVE FrameworkOrder(_, _)
\* The keys of byFramework, in the order of their first row.
FrameworkOrder(seen, rs) ==
    IF rs = <<>> THEN seen
    ELSE IF \E i \in 1..Len(seen) : seen[i] = Head(rs).server
    THEN FrameworkOrder(seen, Tail(rs))
    ELSE FrameworkOrder(Append(seen, Head(rs).server), Tail(rs))

RECURSIVE AllRows(_)
AllRows(sc) == IF sc = <<>> THEN <<>> ELSE Head(sc).rows \o AllRows(Tail(sc))

RECURSIVE GroupRows(_, _)
\* byFramework.get(f): a copy of each row of f, with the concurrency of
\* its scenario.
GroupRows(sc, f) ==
    IF sc = <<>> THEN <<>>
    ELSE LET OfF(row) == row.server = f
             mine == SelectSeq(Head(sc).rows, OfF)
         IN [i \in 1..Len(mine) |-> [x |-> Head(sc).conc, y |-> mine[i].rps]]
            \o GroupRows(Tail(sc), f)

RECURSIVE InsertByConcurrency(_, _)
InsertByConcurrency(arr, d) ==
    IF arr = <<>> THEN <<d>>
    ELSE IF Head(arr).x <= d.x
    THEN <<Head(arr)>> \o InsertByConcurrency(Tail(arr), d)
    ELSE <<d>> \o arr

RECURSIVE SortByConcurrency(_)
\* data.sort((a, b) => a.concurrency - b.concurrency)
SortByConcurrency(arr) ==
    IF arr = <<>> THEN <<>>
    ELSE InsertByConcurrency(SortByConcurrency(SubSeq(arr, 1, Len(arr) - 1)),
                             arr[Len(arr)])

RECURSIVE ProductOfX(_)
\* The common denominator of the efficiencies y / x.
ProductOfX(rpsData) ==
    IF rpsData = <<>> THEN 1 ELSE Head(rpsData).x * ProductOfX(Tail(rpsData))

\* efficiencies = rpsData.map(d => d.y / d.x), as numerators over
\* ProductOfX(rpsData).
Efficiencies(rpsData) ==
    [i \in 1..Len(rpsData) |->
        rpsData[i].y * (ProductOfX(rpsData) \div rpsData[i].x)]

\* calculateTrend(values) for values given as numerators over d: the
\* least-squares slope over x = 0, 1, ..., n - 1, the place in the array.
calculateTrend(values, d) ==
    LET n == Len(values)
        sumX == (n * (n - 1)) \div 2
        sumY == SumSeq(values)
        sumXY == SumSeq([i \in 1..n |-> (i - 1) * values[i]])
        sumX2 == (n * (n - 1) * (2 * n - 1)) \div 6
    IN [num |-> n * sumXY - sumX * sumY,
        den |-> d * (n * sumX2 - sumX * sumX)]

\* if (efficiencyTrend < -0.1) ... else if (efficiencyTrend > 0.05) ...
\* else if (Math.abs(efficiencyTrend) < 0.05) ... else ...
ScalingPattern(slope) ==
    IF 10 * slope.num < - slope.den THEN "degrading"
    ELSE IF 20 * slope.num > slope.den THEN "super_linear"
    ELSE IF 20 * Abs(slope.num) < slope.den THEN "linear"
    ELSE "sub_linear"

HasRps(d) == d.y # NaN

\* detectScalingPattern(sortedData)
detectScalingPattern(sortedData) ==
    LET rpsData == SelectSeq(sortedData, HasRps) IN
      IF Len(rpsData) < 2 THEN "insufficient_data"
      ELSE ScalingPattern(calculateTrend(Efficiencies(rpsData),
                                         ProductOfX(rpsData)))

RECURSIVE FrameworkPatterns(_, _)
\* The loop over byFramework: a framework with fewer than two rows is
\* skipped.
FrameworkPatterns(fs, sc) ==
    IF fs = <<>> THEN <<>>
    ELSE (IF Len(GroupRows(sc, Head(fs))) < 2 THEN <<>>
          ELSE << <<Head(fs),
                    detectScalingPattern(
                        SortByConcurrency(GroupRows(sc, Head(fs))))>> >>)
         \o FrameworkPatterns(Tail(fs), sc)

\* analyzeScalingPatterns(scenarios): the Map `patterns`, in insertion order.
analyzeScalingPatterns(sc) ==
    FrameworkPatterns(FrameworkOrder(<<>>, AllRows(sc)), sc)

\* The three analyses of the index generator, run on `scenarios`.
RunAnalysis ==
    /\ rpPc \in {"ready", "ran once"}
    /\ findings' =
          [insights |-> generateComparativeAnalysis(
                            NewArray(findings.insights), scenarios),
           patterns |-> analyzeScalingPatterns(scenarios),
           bottlenecks |-> detectBottlenecks(
                               NewArray(findings.bottlenecks), scenarios)]
    /\ firstFindings' = IF rpPc = "ready" THEN findings' ELSE firstFindings
    /\ rpPc' = IF rpPc = "ready" THEN "ran once" ELSE "ran twice"
    /\ UNCHANGED <<scenarios, chatVars, uiVars, liveVars, smpVars, anVars,
                   orchVars, benchVars>>

(***************************************************************************)
(* handleChatProxy of the server (server-elide index.ts): up to MaxReqs    *)
(* requests, each handled by its own call, which stands at an await while  *)
(* the others run.  The metrics are summed over their labels.              *)
(***************************************************************************)
Reqs == 1..MaxReqs

\* A finally block of the handler: chatInFlight.dec(), chatDurHist.observe()
\* and chatRequests.labels(..., statusLabel).inc().
FinallyBlock(m, r, label) ==
    [inFlight |-> m.inFlight - 1,
     requests |-> [m.requests EXCEPT ![r] = Append(@, label)],
     durObs |-> [m.durObs EXCEPT ![r] = @ + 1]]

\* The metrics as a record, and the handler's return with them.
ChatMetrics ==
    [inFlight |-> chatInFlight, requests |-> chatRequests,
     durObs |-> chatDurObs]

ChatReturns(r, label, m) ==
    /\ chatPc' = [chatPc EXCEPT ![r] = "end"]
    /\ statusLabel' = [statusLabel EXCEPT ![r] = label]
    /\ chatInFlight' = m.inFlight
    /\ chatRequests' = m.requests
    /\ chatDurObs' = m.durObs

ChatRest == <<repVars, uiVars, liveVars, smpVars, anVars, orchVars, benchVars>>

\* A request arrives: the handler runs up to `for await (const chunk of req)`.
ChatArrive(r) ==
    /\ chatPc[r] = "idle"
    /\ chatPc' = [chatPc EXCEPT ![r] = "body"]
    /\ UNCHANGED <<chatInFlight, statusLabel, chatRequests, chatDurObs, ChatRest>>

\* The body has been read.  JSON.parse throws on a body that is not JSON:
\* the outer catch and finally run.  Otherwise chatInFlight.inc(), and the
\* handler goes on to its first await of the synthetic or the proxied path.
ChatBodyRead(r) ==
    /\ chatPc[r] = "body"
    /\ \E kind \in {"bad json", "synthetic", "proxied"} :
          IF kind = "bad json"
          THEN ChatReturns(r, "500", FinallyBlock(ChatMetrics, r, "500"))
          ELSE /\ chatInFlight' = chatInFlight + 1
               /\ chatPc' = [chatPc EXCEPT ![r] =
                                IF kind = "synthetic" THEN "synth" ELSE "fetch"]
               /\ UNCHANGED <<statusLabel, chatRequests, chatDurObs>>
    /\ UNCHANGED ChatRest

\* Synthetic mode, after its last await: the stream ends (or the inner try
\* has thrown and the inner catch answers 500), the inner finally runs,
\* and `return`, inside the outer try, runs the outer finally.
ChatSynthEnds(r) ==
    /\ chatPc[r] = "synth"
    /\ \E threw \in BOOLEAN :
          LET label == IF threw THEN "500" ELSE "200" IN
            ChatReturns(r, label,
                FinallyBlock(FinallyBlock(ChatMetrics, r, label), r, label))
    /\ UNCHANGED ChatRest

\* Proxied mode: fetch() settles.  A rejection goes to the outer catch; a
\* response without a body is answered with 500 and labeled with the
\* upstream status; else the upstream status is passed on and the body is
\* streamed.
ChatFetchSettles(r) ==
    /\ chatPc[r] = "fetch"
    /\ \E res \in {"rejected", "no body", "200", "502"} :
          IF res = "rejected"
          THEN ChatReturns(r, "500", FinallyBlock(ChatMetrics, r, "500"))
          ELSE IF res = "no body"
          THEN ChatReturns(r, "204", FinallyBlock(ChatMetrics, r, "204"))
          ELSE /\ chatPc' = [chatPc EXCEPT ![r] = "stream"]
               /\ statusLabel' = [statusLabel EXCEPT ![r] = res]
               /\ UNCHANGED <<chatInFlight, chatRequests, chatDurObs>>
    /\ UNCHANGED ChatRest

\* Proxied mode: reader.read() says done, or rejects.
ChatStreamEnds(r) ==
    /\ chatPc[r] = "stream"
    /\ \E threw \in BOOLEAN :
          LET label == IF threw THEN "500" ELSE statusLabel[r] IN
            ChatReturns(r, label, FinallyBlock(ChatMetrics, r, label))
    /\ UNCHANGED ChatRest

(***************************************************************************)
(* benchSummary(c, t) and runBench of the page (src/apps/ui/src/App.tsx):  *)
(* spawn() with its two loops, and the callbacks of the runOnce()          *)
(* promises, which run while spawn() waits for its timer.                  *)
(***************************************************************************)
UiRest == <<repVars, chatVars, liveVars, smpVars, anVars, orchVars, benchVars>>

\* The first loop from its condition to its next await: `inflight++;
\* runOnce()...` until inflight >= c, if done < t.
UiLaunches(inf, dn) == IF dn < uiT /\ inf < uiC THEN uiC - inf ELSE 0

\* Where spawn() stands after running from the condition of the first loop.
UiAfterLoop(inf, dn) ==
    IF dn < uiT THEN "sleep"
    ELSE IF inf > 0 THEN "drain"
    ELSE "done"

\* benchSummary is called: spawn() runs up to its first await.
UiStart ==
    /\ uiPc = "ready"
    /\ uiInflight' = uiInflight + UiLaunches(uiInflight, uiDone)
    /\ uiLaunched' = uiLaunched + UiLaunches(uiInflight, uiDone)
    /\ uiPc' = UiAfterLoop(uiInflight, uiDone)
    /\ UNCHANGED <<uiC, uiT, uiDone, uiDurs, UiRest>>

\* The 1 ms timer fires: `continue` in the first loop, or the condition
\* of the second loop.
UiTimer ==
    /\ \/ /\ uiPc = "sleep"
          /\ uiInflight' = uiInflight + UiLaunches(uiInflight, uiDone)
          /\ uiLaunched' = uiLaunched + UiLaunches(uiInflight, uiDone)
          /\ uiPc' = UiAfterLoop(uiInflight, uiDone)
       \/ /\ uiPc = "drain"
          /\ uiPc' = IF uiInflight > 0 THEN "drain" ELSE "done"
          /\ UNCHANGED <<uiInflight, uiLaunched>>
    /\ UNCHANGED <<uiC, uiT, uiDone, uiDurs, UiRest>>

\* A runOnce() promise settles: `.then` pushes the duration when it
\* resolved, `.finally` counts it either way.
UiComplete ==
    /\ uiPc \in {"sleep", "drain"}
    /\ uiInflight > 0
    /\ \E ok \in BOOLEAN : uiDurs' = uiDurs + (IF ok THEN 1 ELSE 0)
    /\ uiInflight' = uiInflight - 1
    /\ uiDone' = uiDone + 1
    /\ UNCHANGED <<uiPc, uiC, uiT, uiLaunched, UiRest>>

RepIdle ==
    /\ rpPc = "idle"
    /\ scenarios = <<>>
    /\ findings = NoFindings
    /\ firstFindings = NoFindings

ChatIdle ==
    /\ chatPc = [r \in Reqs |-> "idle"]
    /\ chatInFlight = 0
    /\ statusLabel = [r \in Reqs |-> "200"]
    /\ chatRequests = [r \in Reqs |-> <<>>]
    /\ chatDurObs = [r \in Reqs |-> 0]

UiIdle ==
    /\ uiPc = "idle"
    /\ uiC = 1
    /\ uiT = 0
    /\ uiInflight = 0
    /\ uiDone = 0
    /\ uiLaunched = 0
    /\ uiDurs = 0

PageIdle == RepIdle /\ ChatIdle /\ UiIdle

StatusIdle == LiveIdle /\ SmpIdle /\ AnIdle /\ PageIdle

HostIdle == OrchIdle /\ StatusIdle

RunIdle ==
    /\ now = 0
    /\ hasBody = FALSE
    /\ wire = <<>>
    /\ srvEnded = FALSE
    /\ runPc = "idle"
    /\ sendAt = 0
    /\ ttft = NaN
    /\ ttftSeen = FALSE
    /\ tokens = 0
    /\ buffer = <<>>
    /\ duration = NaN
    /\ tps = NaN
    /\ sent = <<>>
    /\ lastTerminated = TRUE
    /\ gotChunk = FALSE
    /\ firstChunkAt = 0
    /\ headersSent = FALSE

SynIdle ==
    /\ frames = 0
    /\ delayMs = 0
    /\ bytesPerFrame = 0
    /\ cpuSpinMs = 0
    /\ fanout = 0
    /\ fanoutDelay = 0
    /\ fanoutMode = "inproc"
    /\ useGzip = FALSE
    /\ srvPc = "idle"
    /\ srvI = 0
    /\ gzbuf = <<>>
    /\ srvOut = <<>>
    /\ srvLog = <<>>

NoStats == [total |-> 0, concurrency |-> 0, wall |-> 0, rps |-> 0, tps |-> 0,
            ttft_p50 |-> NaN, ttft_p95 |-> NaN, dur_p50 |-> NaN,
            dur_p95 |-> NaN]

PctIdle ==
    /\ pVals = <<>>
    /\ pP = 0
    /\ pOut = NaN
    /\ pPc = "idle"

SweepInit ==
    /\ concurrency \in 1..MaxConc
    /\ total \in 0..MaxTotal
    /\ next = 0
    /\ results = [i \in 0..(total - 1) |-> Hole]
    /\ wpc = [w \in WorkerIds(concurrency, total) |-> "new"]
    /\ widx = [w \in WorkerIds(concurrency, total) |-> 0]
    /\ inflight = {}
    /\ issued = [i \in 0..(total - 1) |-> <<>>]
    /\ rejected = {}
    /\ sweepPc = "init"
    /\ ttfts = <<>>
    /\ durs = <<>>
    /\ stats = NoStats

Init == SweepInit /\ PctIdle /\ RunIdle /\ SynIdle /\ HostIdle

Next ==
    \/ SweepStart
    \/ \E w \in DOMAIN wpc : RunResolves(w)
    \/ \E w \in DOMAIN wpc : RunRejects(w)
    \/ SweepAggregate

Spec == Init /\ [][Next]_vars

(***************************************************************************)
(* Properties of sweep(), checked under Spec.                              *)
(***************************************************************************)
RECURSIVE SumLen(_, _)
SumLen(f, S) ==
    IF S = {} THEN 0
    ELSE LET i == CHOOSE x \in S : TRUE IN Len(f[i]) + SumLen(f, S \ {i})

\* The number of run() calls the sweep has made.
IssuedCount == SumLen(issued, DOMAIN issued)

\* The number of request samples the sweep holds.
SampleCount == Cardinality({i \in DOMAIN results : results[i] # Hole})

\* C1: a sweep that has returned has called run() exactly `total` times and
\* holds exactly `total` samples, successful and non-success ones together,
\* also when there are more workers than requests.
C1_ExactlyTotalSamples ==
    sweepPc = "returned" =>
        /\ IssuedCount = total
        /\ SampleCount = total
        /\ Len(durs) = total
        /\ stats.total = total

C1_Witness ==
    /\ sweepPc = "returned"
    /\ concurrency > total
    /\ total >= 2
    /\ \E i \in DOMAIN results : ~results[i].ok
    /\ \E i \in DOMAIN results : results[i].ok

\* C2: at every moment the number of requests in flight is at most the
\* concurrency of the sweep.
C2_InflightBounded == Cardinality(inflight) <= concurrency

C2_Witness ==
    /\ sweepPc = "running"
    /\ total > concurrency
    /\ concurrency >= 2
    /\ Cardinality(inflight) = concurrency
    /\ SampleCount >= 1

\* C3: every index is handed to at most one worker, once; no index at or
\* past `total` is ever issued; a sweep that has returned has issued each of
\* 0..total-1 exactly once; and an index whose request came back as a
\* non-success sample is not issued again.
C3_EachIndexOnce ==
    /\ \A i \in DOMAIN issued : Len(issued[i]) <= 1
    /\ \A i \in DOMAIN issued : issued[i] # <<>> => i \in 0..(total - 1)
    /\ sweepPc = "returned" =>
          \A i \in 0..(total - 1) : Len(issued[i]) = 1
    /\ \A i \in DOMAIN results :
          results[i] # Hole => (i \notin inflight /\ Len(issued[i]) = 1)

C3_Witness ==
    /\ sweepPc = "returned"
    /\ total >= 3
    /\ concurrency >= 2
    /\ \E i, j \in DOMAIN issued : issued[i] # issued[j]
    /\ \E i \in DOMAIN results : ~results[i].ok

\* C4: the aggregates (wall time, throughput, percentiles) exist only once
\* no request of the sweep is in flight and every issued request has left
\* its sample.
C4_AggregateAfterBarrier ==
    (sweepPc = "returned" \/ stats # NoStats \/ durs # <<>> \/ ttfts # <<>>) =>
        /\ inflight = {}
        /\ \A i \in DOMAIN issued :
              issued[i] # <<>> => (i \in DOMAIN results /\ results[i] # Hole)

C4_Witness ==
    /\ sweepPc = "returned"
    /\ stats # NoStats
    /\ total > concurrency
    /\ concurrency >= 2

\* C5 (as claimed): a request whose fetch rejects is recorded as a failed
\* sample and the sweep goes on to return a tier result.
C5_RejectionRecordedAsSample ==
    \A i \in rejected :
        /\ sweepPc # "thrown"
        /\ i \in DOMAIN results /\ results[i] # Hole /\ ~results[i].ok

RECURSIVE OkOnly(_, _)
\* The field over the successful samples only, in index order.
OkOnly(field, i) ==
    IF i \notin DOMAIN results THEN <<>>
    ELSE (IF results[i] # Hole /\ results[i].ok
          THEN <<results[i][field]>> ELSE <<>>)
         \o OkOnly(field, i + 1)

\* C6 (as claimed): the percentile inputs of a returned sweep hold the
\* successful samples only, while rps is computed from the full total.
C6_FailedExcludedFromPercentiles ==
    sweepPc = "returned" =>
        /\ ttfts = OkOnly("ttft", 0)
        /\ durs = OkOnly("duration", 0)
        /\ stats.rps = (total * 1000) \div stats.wall

(***************************************************************************)
(* percentile() on its own: every list of up to MaxLen values and the      *)
(* percentiles its callers ask for.                                        *)
(***************************************************************************)
Percentiles == {0, 50, 95, 99, 100}

SweepIdle ==
    /\ concurrency = 1
    /\ total = 0
    /\ next = 0
    /\ results = <<>>
    /\ wpc = <<>>
    /\ widx = <<>>
    /\ inflight = {}
    /\ issued = <<>>
    /\ rejected = {}
    /\ sweepPc = "idle"
    /\ ttfts = <<>>
    /\ durs = <<>>
    /\ stats = NoStats

PctInit ==
    /\ pVals \in UNION {[1..n -> 1..MaxVal] : n \in 0..MaxLen}
    /\ pP \in Percentiles
    /\ pOut = NaN
    /\ pPc = "call"

PctCall ==
    /\ pPc = "call"
    /\ pOut' = percentile(pVals, pP)
    /\ pPc' = "done"
    /\ UNCHANGED <<pVals, pP>>
    /\ UNCHANGED <<sweepVars, runVars, synVars, hostVars>>

PercentileInit == PctInit /\ SweepIdle /\ RunIdle /\ SynIdle /\ HostIdle
PercentileNext == PctCall
PercentileSpec == PercentileInit /\ [][PercentileNext]_vars

\* C7: for a non-empty list percentile(vals, p) is the element of rank
\* floor((p/100)*(n-1)) (0-based) of the values in ascending order, an element
\* of the list itself (no interpolation); percentile([1,2,3,4], 50) = 2; for
\* the empty list it is NaN.
C7_PercentileIsOrderStatistic ==
    pPc = "done" =>
        IF pVals = <<>> THEN pOut = NaN
        ELSE LET n == Len(pVals)
                 k == (pP * (n - 1)) \div 100
                 below == {i \in 1..n : pVals[i] < pOut}
                 upto == {i \in 1..n : pVals[i] <= pOut}
             IN /\ \E i \in 1..n : pVals[i] = pOut
                /\ Cardinality(below) <= k
                /\ Cardinality(upto) >= k + 1
                /\ (pVals = <<1, 2, 3, 4>> /\ pP = 50) => pOut = 2

C7_Witness ==
    /\ pPc = "done"
    /\ pVals = <<4, 2, 1, 3>>
    /\ pP = 50
    /\ pOut = 2

(***************************************************************************)
(* run() against an arbitrary upstream: the response is any stream of up   *)
(* to MaxFrames frames, cut into chunks at any place.                      *)
(***************************************************************************)
\* The lines an upstream can send, by kind.
LineOf(kind) ==
    CASE kind = "good1" -> <<DATA, SP, OPEN, X, CLOSE>>
      [] kind = "good2" -> <<DATA, OPEN, X, SP, X, SP, CLOSE>>
      [] kind = "trunc" -> <<DATA, SP, OPEN, X>>
      [] kind = "nostr" -> <<DATA, SP, EMPTY>>
      [] kind = "done"  -> <<DATA, SP, DONE>>
      [] kind = "event" -> <<EVT, SP, X>>

FrameKinds ==
    { <<"good1">>, <<"event", "trunc", "good2">>, <<"nostr">>, <<"done">>,
      <<"good1", "done", "good2">> }

Streams == UNION {[1..n -> FrameKinds] : n \in 0..MaxFrames}

RECURSIVE EncodeFrame(_)
\* The lines of a frame, one per line.
EncodeFrame(kinds) ==
    IF Len(kinds) = 1 THEN LineOf(kinds[1])
    ELSE LineOf(Head(kinds)) \o <<LF>> \o EncodeFrame(Tail(kinds))

RECURSIVE EncodeStream(_, _)
\* The frames, each followed by a blank line; the last one only if term.
EncodeStream(frs, term) ==
    IF frs = <<>> THEN <<>>
    ELSE EncodeFrame(Head(frs))
         \o (IF Len(frs) > 1 \/ term THEN <<LF, LF>> ELSE <<>>)
         \o EncodeStream(Tail(frs), term)

RunInit ==
    /\ now = 1
    /\ hasBody \in BOOLEAN
    /\ sent \in (IF hasBody THEN Streams ELSE {<<>>})
    /\ lastTerminated \in (IF sent = <<>> THEN {TRUE} ELSE BOOLEAN)
    /\ wire = EncodeStream(sent, lastTerminated)
    /\ srvEnded = TRUE
    /\ runPc = "start"
    /\ sendAt = 0
    /\ ttft = NaN
    /\ ttftSeen = FALSE
    /\ tokens = 0
    /\ buffer = <<>>
    /\ duration = NaN
    /\ tps = NaN
    /\ gotChunk = FALSE
    /\ firstChunkAt = 0
    /\ headersSent = TRUE

RunSpecInit == RunInit /\ SweepIdle /\ PctIdle /\ SynIdle /\ HostIdle

RunNext ==
    \/ RunSend
    \/ FetchResolves
    \/ ReadChunk
    \/ ReadDone
    \/ RunThrows

RunSpec == RunSpecInit /\ [][RunNext]_vars

\* The words of a line of each kind that is well-formed.
KindWords(kind) ==
    CASE kind = "good1" -> 1
      [] kind = "good2" -> 2
      [] OTHER -> 0

RECURSIVE WordsUpToDone(_)
\* The words of the well-formed lines of a frame that stand before its
\* first [DONE] line.
WordsUpToDone(kinds) ==
    IF kinds = <<>> \/ Head(kinds) = "done" THEN 0
    ELSE KindWords(Head(kinds)) + WordsUpToDone(Tail(kinds))

RECURSIVE WordsOfFrames(_)
WordsOfFrames(frs) ==
    IF frs = <<>> THEN 0
    ELSE WordsUpToDone(Head(frs)) + WordsOfFrames(Tail(frs))

\* The frames that ended with a blank line.
CompleteFrames ==
    IF lastTerminated THEN sent ELSE SubSeq(sent, 1, Len(sent) - 1)

\* C8: when run() returns, its token count is the number of words of the
\* well-formed data: lines it parsed (those of blank-line-terminated frames,
\* up to a [DONE] line of their own frame): a malformed data: line adds
\* nothing, and the well-formed lines and frames after it are all counted.
C8_MalformedSkipped ==
    (runPc = "done" /\ hasBody) => tokens = WordsOfFrames(CompleteFrames)

C8_Witness ==
    /\ runPc = "done"
    /\ Len(sent) = 2
    /\ sent[1] = <<"event", "trunc", "good2">>
    /\ sent[2] = <<"good1">>
    /\ lastTerminated
    /\ tokens = 3

\* C9: TTFT is the time from sending to the first chunk read() returned and
\* keeps that value over later chunks; it is NaN as long as no chunk was
\* read; the duration taken at the end of the stream is not below it.
C9_TtftAtFirstChunk ==
    /\ ~gotChunk => ttft = NaN
    /\ gotChunk => ttft = firstChunkAt - sendAt
    /\ runPc = "done" =>
          /\ duration = now - sendAt
          /\ ttft # NaN => ttft <= duration

C9_Witness ==
    /\ runPc = "done"
    /\ tokens > 0
    /\ sendAt > 0
    /\ ttft > 0
    /\ ttft < duration

(***************************************************************************)
(* run() against the synthetic target.                                     *)
(***************************************************************************)
SynInit ==
    /\ frames \in 0..MaxSynFrames
    /\ delayMs \in {0, 1}
    /\ bytesPerFrame \in {0, 4}
    /\ cpuSpinMs \in {0, 1}
    /\ fanout \in 0..MaxFanout
    /\ fanoutDelay \in (IF fanout = 0 THEN {0} ELSE {0, 1})
    /\ fanoutMode \in (IF fanout = 0 THEN {"inproc"} ELSE {"inproc", "http"})
    /\ useGzip \in BOOLEAN
    /\ srvPc = "idle"
    /\ srvI = 0
    /\ gzbuf = <<>>
    /\ srvOut = <<>>
    /\ srvLog = <<>>

SynClientInit ==
    /\ now = 1
    /\ hasBody = TRUE
    /\ wire = <<>>
    /\ srvEnded = FALSE
    /\ runPc = "start"
    /\ sendAt = 0
    /\ ttft = NaN
    /\ ttftSeen = FALSE
    /\ tokens = 0
    /\ buffer = <<>>
    /\ duration = NaN
    /\ tps = NaN
    /\ sent = <<>>
    /\ lastTerminated = TRUE
    /\ gotChunk = FALSE
    /\ firstChunkAt = 0
    /\ headersSent = FALSE

SynSpecInit == SynInit /\ SynClientInit /\ SweepIdle /\ PctIdle /\ HostIdle

SynNext ==
    \/ RunSend
    \/ FetchResolves
    \/ ReadChunk
    \/ ReadDone
    \/ SynAccept
    \/ SynFanoutStep
    \/ SynFanoutOp
    \/ SynFanoutEnd
    \/ SynFrame
    \/ SynFrameWake
    \/ SynFinish
    \/ GzipFlush

SynSpec == SynSpecInit /\ [][SynNext]_vars

\* The frames of everything the server has written, cut at the blank lines.
WrittenFrames == Split(srvOut, <<LF, LF>>)

IsDataFrame(f) ==
    /\ StartsWithData(f)
    /\ LF \notin SeqSet(f)
    /\ HasStringContent(Payload(f))

\* C10: once the synthetic handler has ended, what it wrote is exactly
\* `frames` data frames followed by one [DONE] frame and nothing else, and
\* the response is ended; for frames >= 1 a run() that has read that stream
\* to its end reports tokens > 0 and a TTFT taken at the first chunk.
C10_SyntheticStream ==
    /\ srvPc = "ended" =>
          /\ Len(WrittenFrames) = frames + 2
          /\ \A i \in 1..frames : IsDataFrame(WrittenFrames[i])
          /\ WrittenFrames[frames + 1] = <<DATA, SP, DONE>>
          /\ WrittenFrames[frames + 2] = <<>>
          /\ srvEnded \/ useGzip
    /\ srvEnded => (srvPc = "ended" /\ gzbuf = <<>>)
    /\ (runPc = "done" /\ frames >= 1) =>
          /\ tokens > 0
          /\ ttft # NaN
          /\ ttft = firstChunkAt - sendAt

C10_Witness ==
    /\ srvPc = "ended"
    /\ runPc = "done"
    /\ frames >= 2
    /\ bytesPerFrame = 0
    /\ tokens = frames
    /\ ttft < duration

IsPrefix(a, b) == Len(a) <= Len(b) /\ SubSeq(b, 1, Len(a)) = a

\* What one pass of the fanout loop and one pass of the frame loop do, and
\* the whole handling of a request, in phase order.
FanoutPass == (IF fanoutDelay > 0 THEN <<"sleep">> ELSE <<>>) \o <<FanoutOp>>
FramePass == (IF cpuSpinMs > 0 THEN <<"spin">> ELSE <<>>) \o <<"frame">>
PhaseOrder ==
    <<"head">> \o Repeat(FanoutPass, fanout) \o Repeat(FramePass, frames)
               \o <<"sentinel", "end">>

\* The number of frames, the sentinel included, written so far.
FramesWritten == Len(WrittenFrames) - 1

\* C11: the synthetic target works in phase order.  What it has done so far
\* is always a prefix of: `fanout` passes (the fanout delay, when there is
\* one, then the sub-operation), then `frames` frames one after another,
\* then the sentinel and the end.  Nothing is written before the last
\* sub-operation is over, and nothing is written after the sentinel.
C11_PhaseOrder ==
    /\ IsPrefix(srvLog, PhaseOrder)
    /\ srvPc = "ended" <=> srvLog = PhaseOrder
    /\ srvOut # <<>> => Len(srvLog) >= 1 + fanout * Len(FanoutPass) + 1
    /\ srvPc \in {"fanout", "fanout-slept"} => srvOut = <<>>
    /\ srvPc \in {"frames", "frame-sleep"} =>
          /\ FramesWritten = srvI
          /\ \A i \in 1..FramesWritten : IsDataFrame(WrittenFrames[i])
    /\ srvPc = "ended" =>
          /\ FramesWritten = frames + 1
          /\ WrittenFrames[FramesWritten] = <<DATA, SP, DONE>>
          /\ WrittenFrames[FramesWritten + 1] = <<>>

C11_Witness ==
    /\ srvPc = "ended"
    /\ fanout >= 1
    /\ fanoutDelay > 0
    /\ frames >= 2
    /\ Len(srvLog) = 1 + 2 * fanout + Len(FramePass) * frames + 2

(***************************************************************************)
(* The orchestrator: any selection of up to MaxTargets targets, managed    *)
(* or already running, up to MaxTiers tiers, either mode, either kind of   *)
(* platform.                                                               *)
(***************************************************************************)
BenchIdle == SweepIdle /\ PctIdle /\ RunIdle /\ SynIdle

OrchInit ==
    /\ targets \in {S \in SUBSET Targets : Cardinality(S) <= MaxTargets}
    /\ startAll \in BOOLEAN
    /\ sequential \in BOOLEAN
    /\ tiers \in 1..MaxTiers
    /\ platform \in {"win32", "posix"}
    /\ orchPc = "launch"
    /\ orchAt = 1
    /\ tierIdx = 0
    /\ build = [t \in Targets |-> "none"]
    /\ proc = [t \in Targets |-> "none"]
    /\ desc = [t \in Targets |-> "none"]
    /\ killedTree = [t \in Targets |-> FALSE]
    /\ probeSt = [t \in Targets |-> "idle"]
    /\ waited = [t \in Targets |-> 0]
    /\ healthy = [t \in Targets |-> FALSE]
    /\ sweepSt = [t \in Targets |-> "idle"]
    /\ written = [p \in Targets \X (1..MaxTiers) |-> {}]
    /\ orchErr = FALSE
    /\ cancelled = FALSE

OrchSpecInit == OrchInit /\ BenchIdle /\ StatusIdle

OrchNext ==
    \/ OrchLaunch
    \/ OrchBuildExit
    \/ \E t \in Targets : ProbeFetchSettles(t)
    \/ \E t \in Targets : ProbeSleepDone(t)
    \/ OrchAfterProbes
    \/ OrchSeqStep
    \/ OrchSeqSweepExit
    \/ OrchParStart
    \/ \E t \in Targets : OrchParSweepExit(t)
    \/ OrchParSettled
    \/ OrchKill

OrchSpec == OrchSpecInit /\ [][OrchNext]_vars

\* Every fetch settles, every timer fires and every child process exits.
OrchFairSpec == OrchSpec /\ WF_vars(OrchNext)

\* The orchestrator as the bench server runs it, with its cancel endpoint.
CancelNext == OrchNext \/ OrchCancel

CancelSpec == OrchSpecInit /\ [][CancelNext]_vars /\ WF_vars(CancelNext)

(***************************************************************************)
(* Properties of the orchestrator.                                         *)
(***************************************************************************)
\* main() has left the loop over the tiers without an exception.
TiersFinished == orchPc \in {"finally", "done"} /\ ~orchErr

\* runForTier has returned for tier k.
TierProcessed(k) ==
    \/ orchPc \in {"tier", "sweeping", "settling"} /\ k < tierIdx
    \/ TiersFinished /\ k <= tiers

C15_HealthGateTerminates ==
    /\ [](\A t \in Targets :
            /\ probeSt[t] = "ok" => healthy[t]
            /\ probeSt[t] = "timeout" => ~healthy[t]
            /\ probeSt[t] = "fetching" => waited[t] < HealthTimeout
            /\ probeSt[t] = "sleeping" => waited[t] <= HealthTimeout)
    /\ [][\A t \in Targets :
             (probeSt[t] # "timeout" /\ probeSt'[t] = "timeout") =>
                 (probeSt[t] = "sleeping" /\ waited[t] + 1 >= HealthTimeout)]_vars
    /\ (orchPc = "probe") ~> (orchPc \in {"tier", "finally"})

C15_Witness ==
    /\ orchPc = "tier"
    /\ \E t \in targets, u \in targets :
          /\ probeSt[t] = "timeout"
          /\ probeSt[u] = "ok"

\* C16: a target with a build step has a server process only if its build
\* has exited with code 0.
C16_BuildBeforeStart ==
    \A t \in Targets :
        /\ (HasBuild(t) /\ proc[t] # "none") => build[t] = "ok"
        /\ build[t] \in {"running", "failed"} => proc[t] = "none"

C16_Witness ==
    /\ build["elide"] = "ok"
    /\ build["express"] = "ok"
    /\ proc["elide"] = "running"
    /\ proc["express"] = "running"
    /\ orchPc = "probe"

\* C17: a target that failed to build is treated like an unhealthy one.
\* When main() has ended, every selected target has an artifact for every
\* tier, the target whose build failed a placeholder.
C17_LaunchFailureLikeUnhealthy ==
    (orchPc \in {"done", "failed"} /\ ~orchErr) =>
        \A t \in targets : \A k \in 1..tiers : written[<<t, k>>] # {}

\* C18: when main() has ended, normally or with an exception, no process
\* that it started is still running.
C18_ManagedProcessesTerminated ==
    orchPc \in {"done", "failed"} => \A t \in Targets : proc[t] # "running"

\* C19: once killTree(pid) has completed for a target, neither its server
\* process nor a process that one spawned is running.
C19_KillTreeKillsDescendants ==
    \A t \in Targets :
        killedTree[t] => (proc[t] # "running" /\ desc[t] # "running")

\* C20: after a run is cancelled while a sweep is under way, the server
\* processes started for the run are eventually all terminated.
C20_CancelTerminatesManaged ==
    (cancelled /\ \E t \in Targets : sweepSt[t] = "running")
        ~> (\A t \in Targets : proc[t] # "running")

(***************************************************************************)
(* The specification of the run-cli endpoints: one run, up to MaxSubs      *)
(* subscribers that attach and leave at any time, cancel requests at any   *)
(* time and any number of them, on either kind of platform.                *)
(***************************************************************************)
LiveInit == hostPlatform \in {"win32", "posix"} /\ NoRun

LiveSpecInit ==
    LiveInit /\ SmpIdle /\ AnIdle /\ PageIdle /\ OrchIdle /\ BenchIdle

LiveNext ==
    \/ \E s \in Subs : LiveSubscribe(s)
    \/ \E s \in Subs : LiveDisconnect(s)
    \/ LiveStart
    \/ LiveLog
    \/ \E out \in ReadOutcomes : LiveTick(out)
    \/ LiveExit
    \/ LiveClose
    \/ LiveCancel

LiveSpec == LiveSpecInit /\ [][LiveNext]_vars

\* An event that tells its receiver a status no run leaves.
TerminalEvent(e) == e.status \in TerminalStatuses
TerminalCount(seq) == Cardinality({i \in 1..Len(seq) : TerminalEvent(seq[i])})
IsOutput(e) == e.type \in {"log", "sample"}

\* C21: a run cancelled while it was running has the status "cancelled",
\* and every response subscribed at the cancel was sent the terminal event
\* with the status "cancelled".
C21_CancelledIsDistinct ==
    cancelledRunning =>
        /\ cliRuns = "cancelled"
        /\ \A s \in Subs : atCancel[s] =>
              \E i \in 1..Len(delivered[s]) :
                  delivered[s][i] = Ev("done", "cancelled")

\* C22: a response that was subscribed when a cancel request was handled
\* has been sent exactly one event carrying a terminal status, whatever
\* the order of the cancel requests and the close event.
C22_OneTerminalEvent ==
    \A s \in Subs : atCancel[s] => TerminalCount(delivered[s]) = 1

\* C23: once the status of the run is terminal, no step changes it.
C23_StatusMonotonic ==
    [][(cliRuns \in TerminalStatuses) => (cliRuns' = cliRuns)]_vars

\* C24: a response that attached when the status of the run was terminal
\* was sent that status as its first event, in the step that attached it.
C24_LateJoinReplay ==
    \A s \in Subs : joinedAt[s] \in TerminalStatuses =>
        /\ Len(delivered[s]) >= 1
        /\ delivered[s][1] = Ev("status", joinedAt[s])

C24_Witness ==
    \E s \in Subs :
        /\ joinedAt[s] \in TerminalStatuses
        /\ conn[s] = "open"
        /\ delivered[s] = <<Ev("status", joinedAt[s])>>

\* C25: in what a response was sent, no log or sample event comes before
\* the start event and none comes after an event with a terminal status.
C25_EventOrder ==
    \A s \in Subs : \A i, j \in 1..Len(delivered[s]) :
        i < j =>
          /\ ~(IsOutput(delivered[s][i]) /\ delivered[s][j].type = "start")
          /\ ~(TerminalEvent(delivered[s][i]) /\ IsOutput(delivered[s][j]))

\* C26: a tick of the sampler whose read failed sends no event, leaves the
\* baseline as it was and leaves the timer registered.
C26_FailedReadSkipsTick ==
    [][\A out \in FailedReads :
          (LiveTick(out) => (/\ samplerLast' = samplerLast
                             /\ delivered' = delivered
                             /\ samplerOn'))]_vars

\* C27: while the status of the run is terminal no sampler timer is
\* registered for it, and no step sends a sample event.
C27_SamplerStopped ==
    /\ [](cliRuns \in TerminalStatuses => ~samplerOn)
    /\ [][(cliRuns \in TerminalStatuses) =>
            (\A s \in Subs :
                delivered'[s] # Append(delivered[s], Ev("sample", "")))]_vars

C27_Witness ==
    /\ cliRuns \in TerminalStatuses
    /\ ~samplerOn
    /\ \E s \in Subs : \E i \in 1..Len(delivered[s]) :
           delivered[s][i].type = "sample"

(***************************************************************************)
(* The specification of the sampler of sweep() and of the sample listener. *)
(***************************************************************************)
SmpInit ==
    /\ smpPc = "start"
    /\ timer = FALSE
    /\ lastSample = Null
    /\ cpuPercents = <<>>
    /\ rssMBs = <<>>
    /\ cliSamples = <<>>

SamplerSpecInit ==
    SmpInit /\ LiveInit /\ AnIdle /\ PageIdle /\ OrchIdle /\ BenchIdle

SamplerNext ==
    \/ SweepSamplerStart
    \/ \E out \in ReadOutcomes : SweepSamplerTick(out)
    \/ SweepSamplerStop
    \/ \E d \in 0..MaxCpu : UiOnSample(d)

SamplerSpec == SamplerSpecInit /\ [][SamplerNext]_vars

\* C28: no buffer of samples holds more than the fixed capacity.
C28_BoundedSampleBuffer ==
    /\ Len(cpuPercents) <= SampleCap
    /\ Len(rssMBs) <= SampleCap
    /\ Len(cliSamples) <= SampleCap

(***************************************************************************)
(* The specification of the analysis: any metric, any pair of values.      *)
(***************************************************************************)
AnInit ==
    /\ anPc = "ready"
    /\ anMetric \in Metrics
    /\ elideRow \in 0..MaxMetric
    /\ otherRow \in 0..MaxMetric
    /\ insight = NoInsight
    /\ cmpClass = "perf-neutral"

AnalyzerSpecInit ==
    AnInit /\ LiveIdle /\ SmpIdle /\ PageIdle /\ OrchIdle /\ BenchIdle

AnalyzerSpec == AnalyzerSpecInit /\ [][AnalyzePair]_vars

\* The class the analyzer is to give the absolute percent delta of the
\* pair: marginal under 10, notable from 10 to 50, significant above 50.
StatedClass ==
    LET diff == calculatePercentDiff(otherRow, elideRow) IN
      IF MagnitudeAbove(diff, 50) THEN "significant"
      ELSE IF MagnitudeBelow(diff, 10) THEN "marginal"
      ELSE "notable"

\* C29: a finding carries the class of its absolute percent delta.
C29_MagnitudeClasses ==
    (anPc = "done" /\ insight.found) => insight.significance = StatedClass

\* The row that did better: the higher value for rps, the lower value for
\* the latency percentiles.
StatedBetter ==
    IF anMetric = "rps"
    THEN (IF elideRow > otherRow THEN "elide" ELSE "other")
    ELSE (IF elideRow < otherRow THEN "elide" ELSE "other")

\* C30: a finding names as better the row with the higher rps or with the
\* lower latency percentile.
C30_BetterTarget ==
    (anPc = "done" /\ insight.found) => insight.better = StatedBetter

(***************************************************************************)
(* The run() parser again: chunk boundaries and the [DONE] sentinel.       *)
(***************************************************************************)
\* C36: for a stream whose frames all end with a blank line, the tokens
\* counted so far plus those the rest of the bytes would add when read as
\* one chunk equal the count of the whole byte sequence read as one chunk,
\* after every chunk and for every place the chunks were cut: the token
\* count does not depend on the chunking.
C36_ChunkingIndependent ==
    (runPc \in {"read", "done"} /\ hasBody /\ lastTerminated) =>
        tokens + Consume(buffer, wire).added
            = Consume(<<>>, EncodeStream(sent, TRUE)).added

\* A chunk ended between the two line feeds of the delimiter.
C36_Witness ==
    /\ runPc = "read"
    /\ lastTerminated
    /\ gotChunk
    /\ Len(sent) = 2
    /\ sent[1] = <<"good1">>
    /\ sent[2] = <<"event", "trunc", "good2">>
    /\ buffer = LineOf("good1") \o <<LF>>
    /\ Head(wire) = LF
    /\ tokens = 0

RECURSIVE HasDone(_)
\* The frame has a [DONE] line.
HasDone(kinds) ==
    IF kinds = <<>> THEN FALSE
    ELSE Head(kinds) = "done" \/ HasDone(Tail(kinds))

RECURSIVE WordsBeforeDone(_)
\* The words of the well-formed lines that stand before the first [DONE]
\* line of the whole stream.
WordsBeforeDone(frs) ==
    IF frs = <<>> THEN 0
    ELSE IF HasDone(Head(frs)) THEN WordsUpToDone(Head(frs))
    ELSE WordsUpToDone(Head(frs)) + WordsBeforeDone(Tail(frs))

\* C37: when run() returns, its token count is the number of words that
\* stand before the first [DONE] line of the stream: neither the later
\* lines of that frame nor the later frames add to it.
C37_NothingAfterDone ==
    (runPc = "done" /\ hasBody) => tokens = WordsBeforeDone(CompleteFrames)

Swept(t, k) == written[<<t, k>>] \cap {"result", "exited"} # {}

\* C39: the healthy set is fixed by the probes.  After the probing no
\* step changes it; a sweep runs, or has run, only for a target whose
\* probe succeeded; and a healthy selected target has been swept in
\* every tier that has been processed.
C39_HealthySetFixed ==
    /\ [](\A t \in Targets :
            /\ sweepSt[t] # "idle" => (probeSt[t] = "ok" /\ t \in targets)
            /\ \A k \in 1..MaxTiers :
                  /\ Swept(t, k) => probeSt[t] = "ok"
                  /\ (TierProcessed(k) /\ healthy[t] /\ t \in targets)
                        => Swept(t, k))
    /\ [][(orchPc \in {"tier", "sweeping", "settling", "finally"})
             => (healthy' = healthy)]_vars
    /\ [][(\E t \in Targets : healthy'[t] # healthy[t])
             => (orchPc = "probe" /\ tierIdx = 0)]_vars

C39_Witness ==
    /\ orchPc = "done"
    /\ tiers = 2
    /\ \E t \in targets, u \in targets :
          /\ healthy[t]
          /\ ~healthy[u]
          /\ probeSt[u] = "timeout"
          /\ written[<<t, 1>>] = {"exited"}
          /\ written[<<t, 2>>] = {"result"}
          /\ written[<<u, 2>>] = {"not healthy"}

\* The sweeps that are running.
RunningSweeps == {t \in Targets : sweepSt[t] = "running"}

NoCell == {NaN}

RowsWith(servers, rpss, p50s, p99s, d50s, d95s) ==
    [server : servers, rps : rpss, ttft_p50 : p50s, ttft_p95 : NoCell,
     ttft_p99 : p99s, dur_p50 : d50s, dur_p95 : d95s]

\* The orders in which reports of k scenarios of distinct concurrency,
\* out of the levels given, can be read.
ConcOrders(levels, k) ==
    {q \in [1..k -> levels] : \A i, j \in 1..k : i # j => q[i] # q[j]}

ScenariosOf(levels, rowSeqs) ==
    UNION {{[i \in 1..k |-> [conc |-> q[i], rows |-> rr[i]]] :
               q \in ConcOrders(levels, k), rr \in [1..k -> rowSeqs]} :
           k \in 1..MaxScenarios}

BottleneckInputs ==
    {<<[conc |-> c, rows |-> <<row>>]>> :
        c \in {1, MaxConcLevel},
        row \in RowsWith({"elide"}, {NaN, 1}, NoCell \cup 1..MaxMetric,
                         NoCell \cup 1..MaxMetric, {NaN, 5}, {NaN, 11})}

ScalingInputs ==
    ScenariosOf(1..MaxConcLevel,
                {<<row>> : row \in RowsWith({"elide"}, NoCell \cup 1..MaxRps,
                                            NoCell, NoCell, NoCell, NoCell)})

PairInputs ==
    LET cells(sv) == RowsWith({sv}, {1, MaxRps}, {5}, {10, 20}, NoCell, NoCell) IN
      ScenariosOf({1, MaxConcLevel},
                  {<<a, b>> : a \in cells("elide"), b \in cells("express")}
                  \cup {<<b, a>> : a \in cells("elide"), b \in cells("express")})

RepInit ==
    /\ rpPc = "ready"
    /\ scenarios \in BottleneckInputs \cup ScalingInputs \cup PairInputs
    /\ findings = NoFindings
    /\ firstFindings = NoFindings

ReportSpecInit ==
    /\ RepInit
    /\ ChatIdle /\ UiIdle
    /\ LiveIdle /\ SmpIdle /\ AnIdle /\ OrchIdle /\ BenchIdle

ReportSpec == ReportSpecInit /\ [][RunAnalysis]_vars

FlaggedHighTtftVariance(c, f) ==
    \E i \in 1..Len(findings.bottlenecks) :
        /\ findings.bottlenecks[i].scenario = c
        /\ findings.bottlenecks[i].framework = f
        /\ \E j \in 1..Len(findings.bottlenecks[i].issues) :
              findings.bottlenecks[i].issues[j] = "high_ttft_variance"

\* C32: a row is flagged for high tail variance exactly when it has both
\* percentiles and its p99 is above 3 times its p50.
C32_TailVarianceFlag ==
    rpPc # "ready" =>
        \A i \in 1..Len(scenarios) : \A j \in 1..Len(scenarios[i].rows) :
            LET row == scenarios[i].rows[j] IN
              FlaggedHighTtftVariance(scenarios[i].conc, row.server)
                  <=> (/\ row.ttft_p50 # NaN
                       /\ row.ttft_p99 # NaN
                       /\ row.ttft_p99 > 3 * row.ttft_p50)

\* p50 = 5 with p99 = 20 is flagged (50 ms and 200 ms, in units of 10 ms).
C32_Witness ==
    /\ rpPc = "ran once"
    /\ Len(scenarios) = 1
    /\ scenarios[1].rows[1].ttft_p50 = 5
    /\ scenarios[1].rows[1].ttft_p99 = 20
    /\ FlaggedHighTtftVariance(scenarios[1].conc, "elide")

\* The least-squares slope of the efficiencies over the concurrencies
\* rpsData[i].x, for efficiencies given as numerators over d.
SlopeOverConcurrency(rpsData, d) ==
    LET n == Len(rpsData)
        eff == Efficiencies(rpsData)
        sumX == SumSeq([i \in 1..n |-> rpsData[i].x])
        sumY == SumSeq(eff)
        sumXY == SumSeq([i \in 1..n |-> rpsData[i].x * eff[i]])
        sumX2 == SumSeq([i \in 1..n |-> rpsData[i].x * rpsData[i].x])
    IN [num |-> n * sumXY - sumX * sumY,
        den |-> d * (n * sumX2 - sumX * sumX)]

\* The pattern the analysis has set for framework f, or "none".
PatternOf(f) ==
    IF \E i \in 1..Len(findings.patterns) : findings.patterns[i][1] = f
    THEN LET i == CHOOSE k \in 1..Len(findings.patterns) :
                      findings.patterns[k][1] = f
         IN findings.patterns[i][2]
    ELSE "none"

\* C33: a server with an rps at two or more tiers gets the pattern of the
\* least-squares slope of rps / concurrency over concurrency.
C33_PatternFromSlope ==
    rpPc # "ready" =>
        \A f \in {"elide", "express"} :
            LET rpsData == SelectSeq(SortByConcurrency(GroupRows(scenarios, f)),
                                     HasRps)
            IN Len(rpsData) >= 2 =>
                  PatternOf(f) = ScalingPattern(
                      SlopeOverConcurrency(rpsData, ProductOfX(rpsData)))

(***************************************************************************)
(* The specification of the chat handler: MaxReqs requests, arriving at    *)
(* any time, each with any body and any upstream.                          *)
(***************************************************************************)
ChatSpecInit ==
    /\ ChatIdle
    /\ RepIdle /\ UiIdle
    /\ LiveIdle /\ SmpIdle /\ AnIdle /\ OrchIdle /\ BenchIdle

ChatNext ==
    \E r \in Reqs :
        \/ ChatArrive(r)
        \/ ChatBodyRead(r)
        \/ ChatSynthEnds(r)
        \/ ChatFetchSettles(r)
        \/ ChatStreamEnds(r)

ChatSpec == ChatSpecInit /\ [][ChatNext]_vars

\* The requests whose handler is between its chatInFlight.inc() and its
\* return.
BeingHandled == {r \in Reqs : chatPc[r] \in {"synth", "fetch", "stream"}}

\* C35: chat_in_flight is the number of requests being handled and never
\* negative; a request that has been answered has been counted once in
\* chat_requests_total, with its final status, and observed once in
\* chat_duration_ms, and one that has not been answered not at all.
C35_ExactlyOnceAccounting ==
    /\ chatInFlight = Cardinality(BeingHandled)
    /\ chatInFlight >= 0
    /\ \A r \in Reqs :
          IF chatPc[r] = "end"
          THEN chatRequests[r] = <<statusLabel[r]>> /\ chatDurObs[r] = 1
          ELSE chatRequests[r] = <<>> /\ chatDurObs[r] = 0

(***************************************************************************)
(* The specification of the page's sweep: one call benchSummary(c, t),     *)
(* with requests that resolve or reject in any order.                      *)
(***************************************************************************)
UiInit ==
    /\ uiPc = "ready"
    /\ uiC \in 1..MaxConc
    /\ uiT \in 0..MaxTotal
    /\ uiInflight = 0
    /\ uiDone = 0
    /\ uiLaunched = 0
    /\ uiDurs = 0

UiSweepSpecInit ==
    /\ UiInit
    /\ RepIdle /\ ChatIdle
    /\ LiveIdle /\ SmpIdle /\ AnIdle /\ OrchIdle /\ BenchIdle

UiNext == UiStart \/ UiTimer \/ UiComplete

UiSweepSpec == UiSweepSpecInit /\ [][UiNext]_vars

\* C38: when spawn() has returned, runOnce() has been called t times and
\* durs holds t samples.
C38_ExactlyTRequests ==
    uiPc = "done" => (uiLaunched = uiT /\ uiDurs = uiT)

====
